---- MODULE Spec2Model ----
(***************************************************************************)
(* A model of the pattern-matching and templated-editing engine of         *)
(* lorgnette: the regular-expression pattern finder, the regex pattern     *)
(* template with its Fragment -> Slots mapping, the Vega marks monocle    *)
(* provider (structural pattern, input and output mappings), the          *)
(* construction of finders from pattern strings, the language registry    *)
(* and the environment provider of the Visual Studio Code editor, the     *)
(* TypeScript parser, and ranges with the conversion of selections.        *)
(***************************************************************************)
EXTENDS Integers, Sequences, FiniteSets, TLC

VARIABLES
    \* ---- RegexPatternFinder (one instance) ----
    finderPattern,      \* regexMatcher.pattern
    fpc,                \* position of applyInDocument: "idle", "scanning", "returned"
    fDocument,          \* the document given to the running / last call
    lastIndex,          \* scan position of the matcher
    fMatches,           \* matches collected so far by matchAll
    fResult,            \* the TextualPattern[] returned by the last call
    matcherInvoked,     \* whether the last call invoked regexMatcher.matchAll
    iterations,         \* number of scan steps of the running / last call
    refDocument,        \* a remembered earlier call on this finder ...
    refResult,          \* ... and what it returned
    callsSinceRef,      \* calls completed since then (counted up to two)
    \* ---- RegexPatternTemplate (one instance) ----
    tPattern,           \* pattern given to the constructor
    slotSpecification,  \* slot key -> valuator provider
    mapHeap,            \* Map objects: identity -> content (Fragment -> key -> Slot)
    mapRef,             \* this.fragmentsToKeysToSlots (identity of the Map object)
    heldRef,            \* the Map object a consumer got hold of (0: none)
    heldStale,          \* whether a pass has run since it got hold of it
    heldEntries,        \* the number of entries it held then
    lastDocument,       \* the document of the most recent pass
    lastReturned,       \* the fragments returned by the most recent pass
    passes,             \* number of recompute passes so far
    superseded,         \* whether the pass before the last returned fragments
    \* ---- Vega marks provider, on one JSON document ----
    vegaText,           \* the content of the document
    vegaTree,           \* its syntax tree
    vegaFragments,      \* the fragments of the provider's fragment provider
    vegaMatched,        \* whether they have been computed
    vegaAllFragments,   \* the fragments found when continuing into matches
    vegaAllMatched,     \* whether they have been computed
    vpc,                \* "parsed", or "edited" once an output was mapped
    vegaOutput,         \* the style change given to the output mapping
    vegaTarget,         \* the rank of the fragment it was given for
    vegaEdits,          \* the edits the output mapping queued
    vegaEditedText,     \* the content of the document after applyEdits
    vegaInput,          \* the style the input mapping last returned
    \* ---- Construction of a finder or a template, and its use ----
    cOwner,             \* what was constructed: "none", "finder", "template"
    cPattern,           \* the pattern of its regex matcher
    cOp,                \* the last operation: "none", "construct", "set", "apply"
    cGiven,             \* the pattern given to the last constructor or setter
    cError,             \* what the last operation threw: "none", "SyntaxError"
    cRejected,          \* whether a pattern was rejected so far
    cDocument,          \* the document of the last applyInDocument
    cResult,            \* what it returned
    \* ---- VisualStudioCodeEditorMonocleEnvironmentProvider and the extension ----
    ppc,                \* "constructed", then "mounted"
    pHandlers,          \* the message types the messenger has a handler for
    pListening,         \* whether the messenger listens for messages
    pMountTrace,        \* what componentDidMount did, in order
    extReady,           \* whether the extension was sent editor-ready
    hookSeesNewState,   \* whether this.state is already updated when
                        \* onEnvironmentDidChange runs
    pDocument,          \* this.state.document
    pRequestMap,        \* this.runtimeRequestIdsToMonoclesAndRequests
    pMonocles,          \* the monocle list most recently reported to the provider
    pEarlierIds,        \* request ids of the monocle lists reported before the last
    \* what the last operation did:
    pDelivery,          \* the message of the extension and what became of it
    pLookup,            \* the call of getLanguageWithId and its result
    pQueued,            \* the responses queued to monocles
    pSent,              \* the messages sent to the extension
    pChange,            \* the environment change and the document held before
    \* ---- TypescriptParser (one instance) ----
    tsProject,          \* the source files of this.project: path -> text
    tsParsed,           \* whether parse was called
    tsText,             \* the text given to the last parse
    tsResult,           \* what it returned, or that it threw
    tsHasRef,           \* a remembered earlier parse on this parser: ...
    tsRefText,          \* ... its text
    tsRefResult,        \* ... and what it returned
    tsOthersSince,      \* whether another text was parsed since then
    \* ---- Ranges ----
    rOp,                \* what produced the last Range: "none", "constructor", ...
    rRange,             \* the last Range produced
    rSource,            \* the Range it was derived from (relativeTo)
    rText,              \* the text of the last fromOffsetsInText
    rSelection,         \* the selection of the last convertMonacoSelection
    \* ---- Decorations of the code editor ----
    dpc,                \* getDecorationBoundingBoxWithId: "idle", "returned", "thrown"
    dElements,          \* bounding boxes of the elements of the decoration id
    dBox                \* the DOMRect returned by the last call

finderVars == <<finderPattern, fpc, fDocument, lastIndex, fMatches, fResult,
                matcherInvoked, iterations, refDocument, refResult, callsSinceRef>>
templateVars == <<tPattern, slotSpecification, mapHeap, mapRef, heldRef, heldStale, heldEntries,
                  lastDocument, lastReturned, passes, superseded>>
vegaVars == <<vegaText, vegaTree, vegaFragments, vegaMatched, vegaAllFragments,
              vegaAllMatched, vpc, vegaOutput, vegaTarget, vegaEdits, vegaEditedText,
              vegaInput>>
constructionVars == <<cOwner, cPattern, cOp, cGiven, cError, cRejected, cDocument, cResult>>
\* The components modelled after the first three.
providerVars == <<ppc, pHandlers, pListening, pMountTrace, extReady, hookSeesNewState,
                  pDocument, pRequestMap, pMonocles, pEarlierIds, pDelivery, pLookup,
                  pQueued, pSent, pChange>>
parserVars == <<tsProject, tsParsed, tsText, tsResult, tsHasRef, tsRefText, tsRefResult,
                tsOthersSince>>
rangeVars == <<rOp, rRange, rSource, rText, rSelection>>
decorationVars == <<dpc, dElements, dBox>>
laterVars == <<constructionVars, providerVars, parserVars, rangeVars, decorationVars>>

-----------------------------------------------------------------------------
(* Bounds of the model *)

MaxTextLen == 3
MaxPasses == 3
MaxProperties == 2

-----------------------------------------------------------------------------
(* Generic helpers *)

Min2(a, b) == IF a <= b THEN a ELSE b

MaxOf(S) == CHOOSE x \in S : \A y \in S : y <= x

MinOf(S) == CHOOSE x \in S : \A y \in S : x <= y

SeqRange(s) == {s[i] : i \in DOMAIN s}

-----------------------------------------------------------------------------
(* Documents *)

Alphabet == {"a", "b"}

Texts == UNION {[1..n -> Alphabet] : n \in 0..MaxTextLen}

DocumentIds == {"d1", "d2"}

\* A Document object: its identity and its text content.
Documents == [id : DocumentIds, content : Texts]

NoDocument == [id |-> "none", content |-> <<>>]

\* Document.isEmpty
IsEmpty(document) == Len(document.content) = 0

-----------------------------------------------------------------------------
(* Regular expressions: a pattern is a sequence of atoms, an atom is a     *)
(* character class with a repetition, possibly inside a named group.       *)

Atom(class, rep, name) == [class |-> class, rep |-> rep, name |-> name]

PatternA == [source |-> "a", atoms |-> <<Atom({"a"}, "one", "")>>]

PatternAStar == [source |-> "a*", atoms |-> <<Atom({"a"}, "star", "")>>]

PatternXPlusB ==
    [source |-> "(?<x>a+)b",
     atoms |-> <<Atom({"a"}, "plus", "x"), Atom({"b"}, "one", "")>>]

PatternOptXY ==
    [source |-> "(?<x>a)?(?<y>b)",
     atoms |-> <<Atom({"a"}, "opt", "x"), Atom({"b"}, "one", "y")>>]

PatternYStar == [source |-> "(?<y>b*)", atoms |-> <<Atom({"b"}, "star", "y")>>]

Patterns == {PatternA, PatternAStar, PatternXPlusB, PatternOptXY, PatternYStar}

NoMatch == [ok |-> FALSE, end |-> -1, groups |-> <<>>]

\* Length of the longest run of characters of class starting after offset pos.
RunLength(class, text, pos) ==
    MaxOf({n \in 0..(Len(text) - pos) : \A j \in 1..n : text[pos + j] \in class})

\* Greedy, backtracking match of atoms[k..] at offset pos of text.
RECURSIVE MatchFrom(_, _, _, _)
MatchFrom(atoms, k, text, pos) ==
    IF k > Len(atoms)
    THEN [ok |-> TRUE, end |-> pos, groups |-> <<>>]
    ELSE LET a == atoms[k]
             lo == IF a.rep \in {"one", "plus"} THEN 1 ELSE 0
             cap == IF a.rep \in {"one", "opt"} THEN 1 ELSE Len(text)
             hi == Min2(RunLength(a.class, text, pos), cap)
             good == {n \in lo..hi : MatchFrom(atoms, k + 1, text, pos + n).ok}
         IN IF good = {}
            THEN NoMatch
            ELSE LET n == MaxOf(good)
                     rest == MatchFrom(atoms, k + 1, text, pos + n)
                     participates == a.name # "" /\ ~(a.rep = "opt" /\ n = 0)
                     group == [name |-> a.name,
                               value |-> SubSeq(text, pos + 1, pos + n),
                               range |-> [start |-> pos, end |-> pos + n]]
                 IN [ok |-> TRUE,
                     end |-> rest.end,
                     groups |-> (IF participates THEN <<group>> ELSE <<>>) \o rest.groups]

\* A RegexMatch found at offset pos.
RegexMatchAt(pattern, text, pos) ==
    LET m == MatchFrom(pattern.atoms, 1, text, pos)
    IN [index |-> pos,
        value |-> SubSeq(text, pos + 1, m.end),
        range |-> [start |-> pos, end |-> m.end],
        groups |-> m.groups]

\* The scan position after a match: past its end, and one further after a
\* zero-width match.
AdvanceNoProgress(match) == match.range.end

AdvancePastMatch(match) ==
    IF match.range.end = match.range.start
    THEN match.range.end + 1
    ELSE match.range.end

\* The offset matchAll starts scanning from.
StartIndexSticky(index) == index

StartIndex(index) == 0

\* One step of RegexMatcher.matchAll: the leftmost match at or after `from`.
ScanStep(pattern, text, from) ==
    LET candidates == {i \in from..Len(text) : MatchFrom(pattern.atoms, 1, text, i).ok}
    IN IF candidates = {}
       THEN [found |-> FALSE, match |-> NoMatch, next |-> from]
       ELSE LET match == RegexMatchAt(pattern, text, MinOf(candidates))
            IN [found |-> TRUE, match |-> match, next |-> AdvancePastMatch(match)]

\* RegexMatcher.matchAll, run to completion.
RECURSIVE ScanAll(_, _, _, _)
ScanAll(pattern, text, from, found) ==
    LET step == ScanStep(pattern, text, from)
    IN IF step.found
       THEN ScanAll(pattern, text, step.next, Append(found, step.match))
       ELSE found

MatchAll(pattern, text) == ScanAll(pattern, text, StartIndex(0), <<>>)

-----------------------------------------------------------------------------
(* RegexPatternFinder *)

\* TextualPattern.fromRegexMatch
FromRegexMatch(match, document) ==
    [text |-> match.value,
     range |-> match.range,
     groups |-> match.groups,
     document |-> document]

\* applyInDocument's early return.
ShortCircuitsNever(document) == FALSE

ShortCircuits(document) == IsEmpty(document)

\* What applyInDocument hands to regexMatcher.matchAll.
MatcherInput(document) == document.content

\* applyInDocument, from the call to either its early return or the start of
\* the matcher's scan.
ApplyStart(document) ==
    /\ fpc \in {"idle", "returned"}
    /\ fDocument' = document
    /\ IF ShortCircuits(document)
       THEN /\ fpc' = "returned"
            /\ fResult' = <<>>
            /\ matcherInvoked' = FALSE
            /\ iterations' = 0
            /\ callsSinceRef' = Min2(callsSinceRef + 1, 2)
            /\ UNCHANGED <<lastIndex, fMatches>>
       ELSE /\ fpc' = "scanning"
            /\ matcherInvoked' = TRUE
            /\ lastIndex' = StartIndex(lastIndex)
            /\ fMatches' = <<>>
            /\ iterations' = 0
            /\ fResult' = <<>>
            /\ UNCHANGED callsSinceRef
    /\ UNCHANGED <<finderPattern, refDocument, refResult>>
    /\ UNCHANGED <<templateVars, vegaVars, laterVars>>

\* One iteration of the matcher's scan; when no further match exists the
\* matches are mapped to TextualPatterns and returned.
ScanIteration ==
    /\ fpc = "scanning"
    /\ LET step == ScanStep(finderPattern, MatcherInput(fDocument), lastIndex)
       IN IF step.found
          THEN /\ fMatches' = Append(fMatches, step.match)
               /\ lastIndex' = step.next
               /\ iterations' = iterations + 1
               /\ UNCHANGED <<fpc, fResult, callsSinceRef>>
          ELSE /\ fpc' = "returned"
               /\ callsSinceRef' = Min2(callsSinceRef + 1, 2)
               /\ fResult' = [i \in DOMAIN fMatches |-> FromRegexMatch(fMatches[i], fDocument)]
               /\ UNCHANGED <<fMatches, lastIndex, iterations>>
    /\ UNCHANGED <<finderPattern, fDocument, matcherInvoked, refDocument, refResult>>
    /\ UNCHANGED <<templateVars, vegaVars, laterVars>>

\* An observer remembers a completed call, to compare later calls with.
Remember ==
    /\ fpc = "returned"
    /\ refDocument # fDocument
    /\ refDocument' = fDocument
    /\ refResult' = fResult
    /\ callsSinceRef' = 0
    /\ UNCHANGED <<finderPattern, fpc, fDocument, lastIndex, fMatches, fResult,
                   matcherInvoked, iterations>>
    /\ UNCHANGED <<templateVars, vegaVars, laterVars>>

\* set pattern(newPattern)
SetPattern(newPattern) ==
    /\ fpc \in {"idle", "returned"}
    /\ newPattern # finderPattern
    /\ finderPattern' = newPattern
    /\ fpc' = "idle"
    /\ refDocument' = NoDocument
    /\ refResult' = <<>>
    /\ callsSinceRef' = 0
    /\ UNCHANGED <<fDocument, lastIndex, fMatches, fResult, matcherInvoked, iterations>>
    /\ UNCHANGED <<templateVars, vegaVars, laterVars>>

FinderInit ==
    /\ fpc = "idle"
    /\ fDocument = NoDocument
    /\ lastIndex = 0
    /\ fMatches = <<>>
    /\ fResult = <<>>
    /\ matcherInvoked = FALSE
    /\ iterations = 0
    /\ refDocument = NoDocument
    /\ refResult = <<>>
    /\ callsSinceRef = 0

-----------------------------------------------------------------------------
(* RegexPatternTemplate *)

SlotKeys == {"x", "y", "z"}

\* The slot specifications a template may be constructed with:
\* slot key -> valuator provider.
SlotSpecifications ==
    { [k \in {"x", "z"} |-> IF k = "x" THEN "NumericValuator" ELSE "TextualValuator"],
      [k \in {"y", "z"} |-> "TextualValuator"] }

TemplatePatterns == {PatternXPlusB, PatternOptXY, PatternYStar}

\* RegexPatternFinder.provideFragmentsWithMatchesForDocument: the matches of
\* the pattern in the document, each with the fresh fragment made for it.
\* A fragment is identified by the pass that made it and its rank in it.
ProvideFragmentsWithMatchesForDocument(pattern, document, pass) ==
    LET matches == IF IsEmpty(document) THEN <<>> ELSE MatchAll(pattern, document.content)
    IN [i \in DOMAIN matches |->
          [fragment |-> [oid |-> <<pass, i>>,
                         text |-> matches[i].value,
                         range |-> matches[i].range,
                         document |-> document,
                         match |-> matches[i]],
           match |-> matches[i]]]

\* match.groups.find(group => group.name === slotKey): the first such group.
HasGroupNamed(groups, slotKey) == \E i \in DOMAIN groups : groups[i].name = slotKey

FindGroup(groups, slotKey) ==
    groups[MinOf({i \in DOMAIN groups : groups[i].name = slotKey})]

\* new TextualTemplateSlot(group.value, group.range, document, slotKey, provider)
NewSlotWholeMatch(group, match, document, slotKey, provider) ==
    [text |-> match.value, range |-> match.range, document |-> document,
     key |-> slotKey, valuatorProvider |-> provider]

NewSlot(group, match, document, slotKey, provider) ==
    [text |-> group.value, range |-> group.range, document |-> document,
     key |-> slotKey, valuatorProvider |-> provider]

\* The inner loop of a pass: the slots of one fragment, one per declared slot
\* key that names a group of the match.
KeysToSlotsOfEveryGroup(specification, match, document) ==
    [k \in {match.groups[i].name : i \in DOMAIN match.groups} |->
        NewSlot(FindGroup(match.groups, k), match, document, k,
                IF k \in DOMAIN specification THEN specification[k] ELSE "TextualValuator")]

KeysToSlots(specification, match, document) ==
    [k \in {key \in DOMAIN specification : HasGroupNamed(match.groups, key)} |->
        NewSlot(FindGroup(match.groups, k), match, document, k, specification[k])]

\* this.fragmentsToKeysToSlots.clear()
KeepEntries(mapping) == mapping

ClearEntries(mapping) == << >>

\* The Map object a pass fills: the one the template already owns.
FreshMapForPass(ref) == ref + 1

MapForPass(ref) == ref

\* The content of the filled Map: what survived the clearing, then one entry
\* per returned fragment (Map.set overwrites).
FilledMapping(before, fragmentsWithMatches, specification, document) ==
    LET made == {fragmentsWithMatches[i].fragment : i \in DOMAIN fragmentsWithMatches}
        matchOf(f) == (CHOOSE i \in DOMAIN fragmentsWithMatches :
                          fragmentsWithMatches[i].fragment = f)
        kept == ClearEntries(before)
    IN [f \in made \cup DOMAIN kept |->
          IF f \in made
          THEN KeysToSlots(specification, fragmentsWithMatches[matchOf(f)].match, document)
          ELSE kept[f]]

\* provideFragmentsForDocument(document): one recompute pass. The method has
\* no await, so it runs to completion in one step.
ProvideFragmentsForDocument(document) ==
    /\ passes < MaxPasses
    /\ \E fragmentsWithMatches \in
            {ProvideFragmentsWithMatchesForDocument(tPattern, document, passes + 1)} :
         LET target == MapForPass(mapRef)
             before == IF target \in DOMAIN mapHeap THEN mapHeap[target] ELSE << >>
         IN \E content \in {FilledMapping(before, fragmentsWithMatches,
                                          slotSpecification, document)} :
              /\ mapRef' = target
              /\ mapHeap' = [r \in DOMAIN mapHeap \cup {target} |->
                                IF r = target THEN content ELSE mapHeap[r]]
              /\ lastReturned' = [i \in DOMAIN fragmentsWithMatches |->
                                     fragmentsWithMatches[i].fragment]
    /\ lastDocument' = document
    /\ superseded' = (lastReturned # <<>>)
    /\ heldStale' = (heldRef # 0)
    /\ passes' = passes + 1
    /\ UNCHANGED <<tPattern, slotSpecification, heldRef, heldEntries>>
    /\ UNCHANGED <<finderVars, vegaVars, laterVars>>

\* A consumer takes the template's current Fragment -> Slots mapping.
ObtainMapping ==
    /\ heldRef # mapRef \/ heldStale
    /\ heldRef' = mapRef
    /\ heldStale' = FALSE
    /\ heldEntries' = Cardinality(DOMAIN mapHeap[mapRef])
    /\ UNCHANGED <<tPattern, slotSpecification, mapHeap, mapRef, lastDocument,
                   lastReturned, passes, superseded>>
    /\ UNCHANGED <<finderVars, vegaVars, laterVars>>

TemplateInit ==
    /\ mapRef = 1
    /\ mapHeap = [r \in {1} |-> << >>]
    /\ heldRef = 0
    /\ heldStale = FALSE
    /\ heldEntries = 0
    /\ lastDocument = NoDocument
    /\ lastReturned = <<>>
    /\ passes = 0
    /\ superseded = FALSE

-----------------------------------------------------------------------------------------------------------------------------------------------------
(* JSON documents: values, their text and their syntax tree.               *)
(* The text is a sequence of characters; the body of a string or of a     *)
(* number counts as one character.                                         *)

Str(s) == [type |-> "String", value |-> s]

\* The value of a number is held in a field of its own, apart from the
\* string held by a String or a Key.
Num(n) == [type |-> "Number", number |-> n]

Arr(values) == [type |-> "Array", values |-> values]

Obj(properties) == [type |-> "Object", properties |-> properties]

Prop(key, value) == [key |-> key, value |-> value]

Quoted(s) == <<"\"", s, "\"">>

\* The text of a JSON value: `"key": value` properties and array items are
\* separated by `, `.
RECURSIVE RenderValue(_), RenderItems(_, _)
RenderItems(items, i) ==
    IF i > Len(items)
    THEN <<>>
    ELSE LET item == items[i]
             text == IF "key" \in DOMAIN item
                     THEN Quoted(item.key) \o <<":", " ">> \o RenderValue(item.value)
                     ELSE RenderValue(item)
         IN (IF i > 1 THEN <<",", " ">> ELSE <<>>) \o text \o RenderItems(items, i + 1)

RenderValue(v) ==
    CASE v.type = "String" -> Quoted(v.value)
      [] v.type = "Number" -> <<ToString(v.number)>>
      [] v.type = "Array" -> <<"[">> \o RenderItems(v.values, 1) \o <<"]">>
      [] v.type = "Object" -> <<"{">> \o RenderItems(v.properties, 1) \o <<"}">>

Width(v) == Len(RenderValue(v))

PropertyWidth(p) == Len(Quoted(p.key)) + Len(<<":", " ">>) + Width(p.value)

\* Offset of the i-th item of a list that starts at offset `first`.
RECURSIVE ItemStart(_, _, _)
ItemStart(items, i, first) ==
    IF i = 1
    THEN first
    ELSE LET previous == items[i - 1]
             width == IF "key" \in DOMAIN previous
                      THEN PropertyWidth(previous)
                      ELSE Width(previous)
         IN ItemStart(items, i - 1, first) + width + Len(<<",", " ">>)

\* The JSON parser: the syntax tree of the text of value v, which starts at
\* offset `start`; every node carries its range in the text.
RECURSIVE ParseValue(_, _)
ParseProperty(p, start) ==
    [type |-> "Property",
     key |-> [type |-> "Key", value |-> p.key,
              range |-> [start |-> start, end |-> start + Len(Quoted(p.key))]],
     value |-> ParseValue(p.value, start + Len(Quoted(p.key)) + Len(<<":", " ">>)),
     range |-> [start |-> start, end |-> start + PropertyWidth(p)]]

ParseValue(v, start) ==
    LET range == [start |-> start, end |-> start + Width(v)]
    IN CASE v.type = "String" -> [type |-> "String", value |-> v.value, range |-> range]
         [] v.type = "Number" -> [type |-> "Number", number |-> v.number, range |-> range]
         [] v.type = "Array" ->
              [type |-> "Array",
               values |-> [i \in DOMAIN v.values |->
                              ParseValue(v.values[i], ItemStart(v.values, i, start + 1))],
               range |-> range]
         [] v.type = "Object" ->
              [type |-> "Object",
               properties |-> [i \in DOMAIN v.properties |->
                                  ParseProperty(v.properties[i],
                                                ItemStart(v.properties, i, start + 1))],
               range |-> range]

\* The numbers a JSON text of the model may hold.
MaxNumber == 12

NumberTexts == {ToString(n) : n \in 0..MaxNumber}

NumberOfText(text) == CHOOSE n \in 0..MaxNumber : ToString(n) = text

\* The JSON parser at work on a text: spaces between tokens are skipped, and
\* a text that is no JSON value is refused.
RECURSIVE SkipSpaces(_, _)
SkipSpaces(text, i) ==
    IF i <= Len(text) /\ text[i] = " " THEN SkipSpaces(text, i + 1) ELSE i

Refused == [ok |-> FALSE, value |-> Str(""), next |-> 0]

Accepted(value, next) == [ok |-> TRUE, value |-> value, next |-> next]

TokenAt(text, i) == IF i \in DOMAIN text THEN text[i] ELSE "end of text"

RECURSIVE ReadValue(_, _), ReadMembers(_, _, _, _)
\* The value that starts at or after offset i.
ReadValue(text, i) ==
    LET j == SkipSpaces(text, i)
        token == TokenAt(text, j)
    IN CASE token = "\"" ->
              IF TokenAt(text, j + 2) = "\""
              THEN Accepted(Str(text[j + 1]), j + 3)
              ELSE Refused
         [] token = "[" -> ReadMembers(text, j + 1, "Array", <<>>)
         [] token = "{" -> ReadMembers(text, j + 1, "Object", <<>>)
         [] token \in NumberTexts -> Accepted(Num(NumberOfText(token)), j + 1)
         [] OTHER -> Refused

\* The items of an array or the properties of an object from offset i on,
\* after the members already read: the closing bracket is accepted only
\* before the first member or after a member, never after a comma.
ReadMembers(text, i, type, members) ==
    LET j == SkipSpaces(text, i)
        closing == IF type = "Array" THEN "]" ELSE "}"
        finished(all, at) ==
            Accepted(IF type = "Array" THEN Arr(all) ELSE Obj(all), at + 1)
    IN IF members = <<>> /\ TokenAt(text, j) = closing
       THEN finished(<<>>, j)
       ELSE LET keyed == /\ TokenAt(text, j) = "\""
                         /\ TokenAt(text, j + 2) = "\""
                         /\ TokenAt(text, SkipSpaces(text, j + 3)) = ":"
                item == IF type = "Array"
                        THEN ReadValue(text, j)
                        ELSE IF keyed
                             THEN ReadValue(text, SkipSpaces(text, j + 3) + 1)
                             ELSE Refused
            IN IF ~item.ok
               THEN Refused
               ELSE LET member == IF type = "Array"
                                  THEN item.value
                                  ELSE Prop(text[j + 1], item.value)
                        k == SkipSpaces(text, item.next)
                    IN IF TokenAt(text, k) = closing
                       THEN finished(Append(members, member), k)
                       ELSE IF TokenAt(text, k) = ","
                            THEN ReadMembers(text, k + 1, type, Append(members, member))
                            ELSE Refused

\* JsonParser.parse(text): the syntax tree of the text, when the text is one
\* JSON value.
IsJson(text) ==
    /\ ReadValue(text, 1).ok
    /\ SkipSpaces(text, ReadValue(text, 1).next) = Len(text) + 1

ParseJson(text) == ParseValue(ReadValue(text, 1).value, 0)

\* SyntaxTreeNode.childNodes
ChildNodes(node) ==
    CASE node.type = "Object" -> node.properties
      [] node.type = "Property" -> <<node.key, node.value>>
      [] node.type = "Array" -> node.values
      [] OTHER -> <<>>

-----------------------------------------------------------------------------
(* The structural pattern of the Vega marks provider *)

SKIP_MATCH_DESCENDANTS == "skip match descendants"

CONTINUE_INTO_MATCH_DESCENDANTS == "continue into match descendants"

\* The predicate of the pattern: an object-valued property named mark.
VegaMarksPredicateOtherKey(n) ==
    /\ n.type = "Property"
    /\ n.key.value = "marks"
    /\ n.value.type = "Object"

VegaMarksPredicate(n) ==
    /\ n.type = "Property"
    /\ n.key.value = "mark"
    /\ n.value.type = "Object"

\* The descent policy given to the pattern.
VegaMarksPolicyContinue == CONTINUE_INTO_MATCH_DESCENDANTS

VegaMarksPolicy == SKIP_MATCH_DESCENDANTS

\* TreePatternFinder: a pre-order walk from `node` that makes a fragment of
\* every node satisfying the predicate, and does not enter a matching node
\* under the skip policy.
RECURSIVE ApplyTreePattern(_, _), ApplyTreePatternToAll(_, _, _)
ApplyTreePatternToAll(nodes, i, policy) ==
    IF i > Len(nodes)
    THEN <<>>
    ELSE ApplyTreePattern(nodes[i], policy) \o ApplyTreePatternToAll(nodes, i + 1, policy)

ApplyTreePattern(node, policy) ==
    LET matches == VegaMarksPredicate(node)
        here == IF matches THEN <<[node |-> node, range |-> node.range]>> ELSE <<>>
    IN IF matches /\ policy = SKIP_MATCH_DESCENDANTS
       THEN here
       ELSE here \o ApplyTreePatternToAll(ChildNodes(node), 1, policy)

-----------------------------------------------------------------------------
(* Style changes: the output of the style inspector. A property of a style *)
(* is undefined, disabled, or has a value.                                 *)

Undefined == [state |-> "undefined"]

Disabled == [state |-> "disabled"]

ColorOf(css) == [state |-> "value", css |-> css]

NumberOf(n) == [state |-> "value", value |-> n]

BooleanOf(b) == [state |-> "value", value |-> b]

\* A border type: "solid", "dotted", "dashed", or a pair of dash lengths.
BorderTypeOf(kind, lengths) == [state |-> "value", kind |-> kind, lengths |-> lengths]

\* isEnabledAndDefined
IsEnabledAndDefined(property) == property.state = "value"

NoBackground == [present |-> FALSE, color |-> Undefined]

NoBorder == [present |-> FALSE, thickness |-> Undefined, type |-> Undefined,
             color |-> Undefined]

NoFont == [present |-> FALSE, size |-> Undefined, bold |-> Undefined, italic |-> Undefined]

NoStyleChange == [background |-> NoBackground, border |-> NoBorder, font |-> NoFont]

BackgroundChanges ==
    [present : {TRUE}, color : {Undefined, Disabled, ColorOf("blue"), ColorOf("green")}]

BorderTypes ==
    {BorderTypeOf("solid", <<>>), BorderTypeOf("dotted", <<>>),
     BorderTypeOf("dashed", <<>>), BorderTypeOf("lengths", <<3, 1>>),
     BorderTypeOf("lengths", <<1, 1>>), BorderTypeOf("lengths", <<2, 2>>)}

BorderChanges ==
    [present : {TRUE},
     thickness : {Undefined, NumberOf(0), NumberOf(2)},
     type : {Undefined} \cup BorderTypes,
     color : {Undefined, ColorOf("blue")}]

FontChanges ==
    [present : {TRUE},
     size : {Undefined, NumberOf(12)},
     bold : {Undefined, BooleanOf(TRUE), BooleanOf(FALSE)},
     italic : {Undefined, BooleanOf(TRUE), BooleanOf(FALSE)}]

\* The style changes given to the output mapping: a change of one part of
\* the style, or of all three at once.
StyleChanges ==
    [background : BackgroundChanges, border : {NoBorder}, font : {NoFont}]
    \cup [background : {NoBackground}, border : BorderChanges, font : {NoFont}]
    \cup [background : {NoBackground}, border : {NoBorder}, font : FontChanges]
    \cup [background : {[present |-> TRUE, color |-> ColorOf("blue")]},
          border : {b \in BorderChanges : b.thickness = NumberOf(2) /\ b.type = Undefined},
          font : {f \in FontChanges : f.size = NumberOf(12) /\ f.bold = Undefined}]

-----------------------------------------------------------------------------
(* Edits of the document editor, and the JSON utilities that queue them *)

ReplaceEdit(range, text) == [kind |-> "replace", range |-> range, text |-> text]

InsertEdit(offset, text) ==
    [kind |-> "insert", range |-> [start |-> offset, end |-> offset], text |-> text]

DeleteEdit(range) == [kind |-> "delete", range |-> range, text |-> <<>>]

\* DocumentEditor.applyEdits: the edits, whose ranges are ranges of the
\* document as it was, are applied in the order they were queued. The range
\* of an edit that starts at or after the end of an applied edit is shifted
\* by the change of length, the range of one that ends at or before its
\* start stays; of a range that overlaps the applied edit, an offset inside
\* the edited range moves to the end of the new text.
RECURSIVE ApplyEdits(_, _)
ApplyEdits(text, edits) ==
    IF edits = <<>>
    THEN text
    ELSE LET e == Head(edits)
             delta == Len(e.text) - (e.range.end - e.range.start)
             moved(offset) == IF offset >= e.range.end THEN offset + delta
                              ELSE IF offset <= e.range.start THEN offset
                              ELSE e.range.start + Len(e.text)
             shifted(r) == IF r.start >= e.range.end
                           THEN [start |-> r.start + delta, end |-> r.end + delta]
                           ELSE IF r.end <= e.range.start
                                THEN r
                                ELSE [start |-> moved(r.start), end |-> moved(r.end)]
             rest == [i \in DOMAIN Tail(edits) |->
                        [Tail(edits)[i] EXCEPT !.range = shifted(@)]]
         IN ApplyEdits(SubSeq(text, 1, e.range.start) \o e.text
                          \o SubSeq(text, e.range.end + 1, Len(text)),
                       rest)

\* The properties of the object whose key is `key`, in source order.
PropertiesNamed(object, key) ==
    SelectSeq(object.properties, LAMBDA p : p.key.value = key)

\* processProperty looks the keys up in order of priority.
RECURSIVE FirstKeyPresent(_, _)
FirstKeyPresent(object, keys) ==
    IF keys = <<>>
    THEN "none"
    ELSE IF PropertiesNamed(object, Head(keys)) # <<>>
         THEN Head(keys)
         ELSE FirstKeyPresent(object, Tail(keys))

HasProperty(object, keys) == FirstKeyPresent(object, keys) # "none"

FindProperty(object, keys) == Head(PropertiesNamed(object, FirstKeyPresent(object, keys)))

\* insertProperty: after the last property of the object, or right after
\* its opening brace when it has none.
InsertProperty(object, key, valueText) ==
    IF object.properties = <<>>
    THEN <<InsertEdit(object.range.start + 1,
                      Quoted(key) \o <<":", " ">> \o valueText)>>
    ELSE <<InsertEdit(object.properties[Len(object.properties)].range.end,
                      <<",", " ">> \o Quoted(key) \o <<":", " ">> \o valueText)>>

\* deleteProperty: the property and the separator that follows it, or the
\* one before it when it is the last; nothing when there is no such property.
DeleteProperty(object, key) ==
    LET found == {i \in DOMAIN object.properties : object.properties[i].key.value = key}
    IN IF found = {}
       THEN <<>>
       ELSE LET i == MinOf(found)
                n == Len(object.properties)
                r == object.properties[i].range
            IN IF i < n
               THEN <<DeleteEdit([start |-> r.start,
                                  end |-> object.properties[i + 1].range.start])>>
               ELSE IF i > 1
                    THEN <<DeleteEdit([start |-> object.properties[i - 1].range.end,
                                       end |-> r.end])>>
                    ELSE <<DeleteEdit(r)>>

\* processProperty(object, keys, p => editor.replace(p.value.range, text),
\*                 () => insertProperty(document, editor, object, key, text))
ReplaceValueOrInsert(object, keys, key, valueText) ==
    IF HasProperty(object, keys)
    THEN <<ReplaceEdit(FindProperty(object, keys).value.range, valueText)>>
    ELSE InsertProperty(object, key, valueText)

-----------------------------------------------------------------------------
(* The output mapping of the Vega marks provider *)

\* The mark object of a fragment: the value of the matched property.
MarkOf(fragment) == fragment.node.value

\* Background: the colour replaces the value of fill (or else of color), or
\* is inserted as a new fill property.
BackgroundEditsOfWholeProperty(mark, background) ==
    IF background.present /\ IsEnabledAndDefined(background.color)
    THEN IF HasProperty(mark, <<"fill", "color">>)
         THEN <<ReplaceEdit(FindProperty(mark, <<"fill", "color">>).range,
                            Quoted(background.color.css))>>
         ELSE InsertProperty(mark, "fill", Quoted(background.color.css))
    ELSE <<>>

BackgroundEdits(mark, background) ==
    IF background.present /\ IsEnabledAndDefined(background.color)
    THEN ReplaceValueOrInsert(mark, <<"fill", "color">>, "fill",
                              Quoted(background.color.css))
    ELSE <<>>

\* `[${lengths[0]}, ${lengths[1]}]`
DashLengthsAsString(lengths) ==
    <<"[", ToString(lengths[1]), ",", " ", ToString(lengths[2]), "]">>

DashLengthsOf(type) ==
    IF type.kind = "dotted" THEN <<1, 1>>
    ELSE IF type.kind = "dashed" THEN <<2, 2>>
    ELSE type.lengths

\* Border: thickness, then type, then colour.
BorderEdits(mark, border) ==
    IF ~border.present
    THEN <<>>
    ELSE (IF IsEnabledAndDefined(border.thickness)
          THEN IF border.thickness.value = 0
               THEN DeleteProperty(mark, "strokeWidth")
               ELSE ReplaceValueOrInsert(mark, <<"strokeWidth">>, "strokeWidth",
                                         <<ToString(border.thickness.value)>>)
          ELSE <<>>)
         \o
         (IF IsEnabledAndDefined(border.type)
          THEN IF border.type.kind = "solid"
               THEN DeleteProperty(mark, "strokeDash")
               ELSE ReplaceValueOrInsert(mark, <<"strokeDash">>, "strokeDash",
                                         DashLengthsAsString(DashLengthsOf(border.type)))
          ELSE <<>>)
         \o
         (IF IsEnabledAndDefined(border.color)
          THEN ReplaceValueOrInsert(mark, <<"stroke">>, "stroke", Quoted(border.color.css))
          ELSE <<>>)

\* Font: size, then weight, then style.
FontEdits(mark, font) ==
    IF ~font.present
    THEN <<>>
    ELSE (IF IsEnabledAndDefined(font.size)
          THEN ReplaceValueOrInsert(mark, <<"fontSize">>, "fontSize",
                                    <<ToString(font.size.value)>>)
          ELSE <<>>)
         \o
         (IF IsEnabledAndDefined(font.bold)
          THEN ReplaceValueOrInsert(mark, <<"fontWeight">>, "fontWeight",
                                    Quoted(IF font.bold.value THEN "bold" ELSE "normal"))
          ELSE <<>>)
         \o
         (IF IsEnabledAndDefined(font.italic)
          THEN ReplaceValueOrInsert(mark, <<"fontStyle">>, "fontStyle",
                                    Quoted(IF font.italic.value THEN "italic" ELSE "normal"))
          ELSE <<>>)

\* The edits the output mapping queues before it calls applyEdits.
QueuedEdits(fragment, styleChange) ==
    BackgroundEdits(MarkOf(fragment), styleChange.background)
        \o BorderEdits(MarkOf(fragment), styleChange.border)
        \o FontEdits(MarkOf(fragment), styleChange.font)

-----------------------------------------------------------------------------
(* The input mapping of the Vega marks provider *)

\* new ValueWithUnit(value, unit)
ValueWithUnit(value, unit) == [state |-> "value", value |-> value, unit |-> unit]

\* A list of font families.
FamilyOf(names) == [state |-> "value", names |-> names]

\* The `value` field of a node, as the input mapping reads it from the two
\* items of a strokeDash array: a number for a Number node, a string for a
\* String node, undefined for a node that has no such field.
ValueField(node) ==
    CASE node.type = "Number" -> [defined |-> TRUE, number |-> node.number]
      [] node.type = "String" -> [defined |-> TRUE, string |-> node.value]
      [] OTHER -> [defined |-> FALSE]

\* firstValue.value === n
ValueIs(node, n) == node.type = "Number" /\ node.number = n

\* values.some(v => v.type === "Number")
SomeNumber(values) == \E i \in DOMAIN values : values[i].type = "Number"

\* Whether the value of strokeDash passes the test that guards the
\* assignment of a border type.
SupportedDashArray(value) ==
    /\ value.type = "Array"
    /\ Len(value.values) = 2
    /\ SomeNumber(value.values)

\* The pair [firstValue.value, secondValue.value]: a pair of dash lengths
\* when both are numbers, and otherwise a pair that holds whatever the
\* `value` fields of the two items are.
PairOfValues(first, second) ==
    IF first.type = "Number" /\ second.type = "Number"
    THEN BorderTypeOf("lengths", <<first.number, second.number>>)
    ELSE [state |-> "value", kind |-> "pair",
          items |-> <<ValueField(first), ValueField(second)>>]

\* The border type read from the mark object: from strokeDash when it is
\* there and supported, solid when there is no strokeDash.
InputBorderTypeOfAnyPair(mark) ==
    IF HasProperty(mark, <<"strokeDash">>)
    THEN LET value == FindProperty(mark, <<"strokeDash">>).value
         IN IF SupportedDashArray(value)
            THEN PairOfValues(value.values[1], value.values[2])
            ELSE Undefined
    ELSE BorderTypeOf("solid", <<>>)

InputBorderType(mark) ==
    IF HasProperty(mark, <<"strokeDash">>)
    THEN LET value == FindProperty(mark, <<"strokeDash">>).value
         IN IF SupportedDashArray(value)
            THEN IF ValueIs(value.values[1], 1) /\ ValueIs(value.values[2], 1)
                 THEN BorderTypeOf("dotted", <<>>)
                 ELSE IF ValueIs(value.values[1], 2) /\ ValueIs(value.values[2], 2)
                      THEN BorderTypeOf("dashed", <<>>)
                      ELSE PairOfValues(value.values[1], value.values[2])
            ELSE Undefined
    ELSE BorderTypeOf("solid", <<>>)

\* The colour read from the first of the keys the mark holds, when its
\* value is a string.
InputColor(mark, keys) ==
    IF HasProperty(mark, keys) /\ FindProperty(mark, keys).value.type = "String"
    THEN ColorOf(FindProperty(mark, keys).value.value)
    ELSE Undefined

\* A length in pixels read from a number-valued property, or the default
\* when the mark has no such property.
InputLength(mark, key, default) ==
    IF HasProperty(mark, <<key>>)
    THEN IF FindProperty(mark, <<key>>).value.type = "Number"
         THEN ValueWithUnit(FindProperty(mark, <<key>>).value.number, "px")
         ELSE Undefined
    ELSE ValueWithUnit(default, "px")

InputBackgroundStyle(mark) == [color |-> InputColor(mark, <<"fill", "color">>)]

InputBorderStyle(mark) ==
    [color |-> InputColor(mark, <<"stroke", "color">>),
     type |-> InputBorderType(mark),
     thickness |-> InputLength(mark, "strokeWidth", 0)]

InputFontStyle(mark) ==
    [family |-> IF HasProperty(mark, <<"font">>)
                THEN IF FindProperty(mark, <<"font">>).value.type = "String"
                     THEN FamilyOf(<<FindProperty(mark, <<"font">>).value.value>>)
                     ELSE Undefined
                ELSE FamilyOf(<<"sans-serif">>),
     size |-> InputLength(mark, "fontSize", 11),
     bold |-> IF HasProperty(mark, <<"fontWeight">>)
              THEN LET value == FindProperty(mark, <<"fontWeight">>).value
                   IN IF \/ value.type = "String" /\ value.value = "bold"
                         \/ value.type = "Number" /\ value.number >= 400
                      THEN BooleanOf(TRUE)
                      ELSE Undefined
              ELSE Undefined,
     italic |-> IF HasProperty(mark, <<"fontStyle">>)
                THEN LET value == FindProperty(mark, <<"fontStyle">>).value
                     IN IF value.type = "String" /\ value.value = "italic"
                        THEN BooleanOf(TRUE)
                        ELSE Undefined
                ELSE Undefined]

\* Object.getOwnPropertyNames(part).length > 0
HasOwnProperties(part) == \E name \in DOMAIN part : part[name] # Undefined

\* The style the input mapping returns: a part of the style is there when
\* one of its properties was set.
InputStyle(mark) ==
    [read |-> TRUE,
     hasBackground |-> HasOwnProperties(InputBackgroundStyle(mark)),
     background |-> InputBackgroundStyle(mark),
     hasBorder |-> HasOwnProperties(InputBorderStyle(mark)),
     border |-> InputBorderStyle(mark),
     hasFont |-> HasOwnProperties(InputFontStyle(mark)),
     font |-> IF HasOwnProperties(InputFontStyle(mark))
              THEN InputFontStyle(mark) @@ [underline |-> Disabled, color |-> Disabled]
              ELSE InputFontStyle(mark)]

\* No input mapping has run.
NoInput == [read |-> FALSE]

-----------------------------------------------------------------------------
(* The Vega marks provider at work on one JSON document *)

\* The properties a mark object of the model may hold.
MarkProperties ==
    {Prop("fill", Str("red")), Prop("fill", Num(1)),
     Prop("color", Str("red")),
     Prop("stroke", Str("red")),
     Prop("strokeWidth", Num(2)),
     Prop("strokeDash", Arr(<<Num(1), Num(1)>>)),
     Prop("fontSize", Num(11)),
     Prop("fontWeight", Str("bold")),
     Prop("mark", Obj(<<Prop("fill", Str("red"))>>)),
     Prop("mark", Str("bar"))}

\* Sequences of at most n mark properties with distinct keys.
RECURSIVE PropertyLists(_)
PropertyLists(n) ==
    IF n = 0
    THEN {<<>>}
    ELSE LET shorter == PropertyLists(n - 1)
         IN shorter \cup
            {Append(l, p) : l \in {x \in shorter : Len(x) = n - 1},
                            p \in MarkProperties} 

DistinctKeys(l) == \A i, j \in DOMAIN l : i # j => l[i].key # l[j].key

\* Other values of strokeDash: pairs of numbers, a pair with an item that is
\* no number, arrays of one and of three items, and a value that is no array.
StrokeDashValues ==
    {Arr(<<Num(3), Num(1)>>), Arr(<<Num(2), Num(2)>>),
     Arr(<<Num(1), Str("x")>>), Arr(<<Str("x"), Num(1)>>),
     Arr(<<Str("x"), Str("y")>>), Arr(<<Num(3)>>),
     Arr(<<Num(1), Num(2), Num(3)>>), Str("dash")}

\* Mark objects that hold one of them, alone or before a strokeWidth.
MarksWithStrokeDash ==
    {Obj(<<Prop("strokeDash", value)>> \o rest) :
        value \in StrokeDashValues, rest \in {<<>>, <<Prop("strokeWidth", Num(2))>>}}

MarkObjects ==
    {Obj(l) : l \in {x \in PropertyLists(MaxProperties) : DistinctKeys(x)}}
        \cup MarksWithStrokeDash

\* The documents: an object holding a property named mark or encoding, whose
\* value is a mark object or a string, possibly after a data property.
JsonDocuments ==
    {Obj(prefix \o <<Prop(key, value)>>) :
        prefix \in {<<>>, <<Prop("data", Str("d"))>>},
        key \in {"mark", "encoding"},
        value \in MarkObjects \cup {Str("bar")}}

\* The fragment provider of the Vega marks provider is applied to the
\* document.
ProvideVegaFragments ==
    /\ vpc = "parsed"
    /\ ~vegaMatched
    /\ vegaFragments' = ApplyTreePattern(vegaTree, VegaMarksPolicy)
    /\ vegaMatched' = TRUE
    /\ UNCHANGED <<vegaText, vegaTree, vegaAllFragments, vegaAllMatched, vpc,
                   vegaOutput, vegaTarget, vegaEdits, vegaEditedText, vegaInput>>
    /\ UNCHANGED <<finderVars, templateVars, laterVars>>

\* A tree pattern finder with the same predicate and the policy of
\* continuing into the descendants of a match is applied to the document.
ProvideFragmentsContinuing ==
    /\ vpc = "parsed"
    /\ ~vegaAllMatched
    /\ vegaAllFragments' = ApplyTreePattern(vegaTree, CONTINUE_INTO_MATCH_DESCENDANTS)
    /\ vegaAllMatched' = TRUE
    /\ UNCHANGED <<vegaText, vegaTree, vegaFragments, vegaMatched, vpc,
                   vegaOutput, vegaTarget, vegaEdits, vegaEditedText, vegaInput>>
    /\ UNCHANGED <<finderVars, templateVars, laterVars>>

\* The output mapping, given the style change of the user interface of the
\* fragment of rank `target`: it queues the edits and applies them.
OutputMapping(target, styleChange) ==
    /\ vpc = "parsed"
    /\ vegaMatched
    /\ target \in DOMAIN vegaFragments
    /\ \E edits \in {QueuedEdits(vegaFragments[target], styleChange)} :
          /\ vegaEdits' = edits
          /\ vegaEditedText' = ApplyEdits(vegaText, edits)
    /\ vegaOutput' = styleChange
    /\ vegaTarget' = target
    /\ vpc' = "edited"
    /\ UNCHANGED <<vegaText, vegaTree, vegaFragments, vegaMatched,
                   vegaAllFragments, vegaAllMatched, vegaInput>>
    /\ UNCHANGED <<finderVars, templateVars, laterVars>>

\* The input mapping, given the fragment of rank `target` of the document.
InputMapping(target) ==
    /\ vpc = "parsed"
    /\ vegaMatched
    /\ target \in DOMAIN vegaFragments
    /\ vegaInput' = InputStyle(MarkOf(vegaFragments[target]))
    /\ vegaTarget' = target
    /\ vpc' = "read"
    /\ UNCHANGED <<vegaText, vegaTree, vegaFragments, vegaMatched, vegaAllFragments,
                   vegaAllMatched, vegaOutput, vegaEdits, vegaEditedText>>
    /\ UNCHANGED <<finderVars, templateVars, laterVars>>

\* The edited document is parsed, the fragment provider is applied to it,
\* and the input mapping is given the fragment of the rank of the one that
\* was edited. A document that is no JSON any more has no fragment.
InputMappingOfEditedDocument ==
    /\ vpc = "edited"
    /\ IF IsJson(vegaEditedText)
       THEN \E fragments \in {ApplyTreePattern(ParseJson(vegaEditedText), VegaMarksPolicy)} :
               IF vegaTarget \in DOMAIN fragments
               THEN /\ vegaInput' = InputStyle(MarkOf(fragments[vegaTarget]))
                    /\ vpc' = "read again"
               ELSE /\ vegaInput' = NoInput
                    /\ vpc' = "no fragment"
       ELSE /\ vegaInput' = NoInput
            /\ vpc' = "no fragment"
    /\ UNCHANGED <<vegaText, vegaTree, vegaFragments, vegaMatched, vegaAllFragments,
                   vegaAllMatched, vegaOutput, vegaTarget, vegaEdits, vegaEditedText>>
    /\ UNCHANGED <<finderVars, templateVars, laterVars>>

VegaInit ==
    /\ vpc = "parsed"
    /\ vegaInput = NoInput
    /\ vegaFragments = <<>>
    /\ vegaMatched = FALSE
    /\ vegaAllFragments = <<>>
    /\ vegaAllMatched = FALSE
    /\ vegaOutput = NoStyleChange
    /\ vegaTarget = 0
    /\ vegaEdits = <<>>
    /\ vegaEditedText = <<>>

-----------------------------------------------------------------------------
(* Construction of a RegexPatternFinder or a RegexPatternTemplate with any *)
(* pattern string, valid or not, and the use of what was constructed       *)

\* Pattern strings that are no regular expression: a quantifier with
\* nothing to repeat, and two groups of the same name.
PatternNothingToRepeat ==
    [source |-> "*a", atoms |-> <<Atom({}, "star", ""), Atom({"a"}, "one", "")>>]

PatternDuplicateGroup ==
    [source |-> "(?<x>a)(?<x>b)",
     atoms |-> <<Atom({"a"}, "one", "x"), Atom({"b"}, "one", "x")>>]

InvalidPatterns == {PatternNothingToRepeat, PatternDuplicateGroup}

PatternStrings == Patterns \cup InvalidPatterns

NoPattern == [source |-> "", atoms |-> <<>>]

SyntaxErrorIn(pattern) ==
    \/ \E i \in DOMAIN pattern.atoms : pattern.atoms[i].class = {}
    \/ \E i, j \in DOMAIN pattern.atoms :
          i < j /\ pattern.atoms[i].name # "" /\ pattern.atoms[i].name = pattern.atoms[j].name

\* Whether RegexMatcher throws when it is given a pattern (by its
\* constructor or by its pattern setter).
ThrowsWhenGivenNever(pattern) == FALSE

ThrowsWhenGiven(pattern) == SyntaxErrorIn(pattern)

\* new RegexPatternFinder(pattern), or new RegexPatternTemplate(pattern, ...)
\* which constructs its finder: the matcher is built from the pattern at
\* once, and what it throws leaves the constructor.
Construct(owner, pattern) ==
    /\ cOwner = "none"
    /\ cOp' = "construct"
    /\ cGiven' = pattern
    /\ IF ThrowsWhenGiven(pattern)
       THEN /\ cError' = "SyntaxError"
            /\ cRejected' = TRUE
            /\ UNCHANGED <<cOwner, cPattern>>
       ELSE /\ cError' = "none"
            /\ cOwner' = owner
            /\ cPattern' = pattern
            /\ UNCHANGED cRejected
    /\ UNCHANGED <<cDocument, cResult>>
    /\ UNCHANGED <<finderVars, templateVars, vegaVars, providerVars, parserVars, rangeVars, decorationVars>>

\* finder.pattern = newPattern: the pattern is handed to the matcher at once.
AssignPattern(newPattern) ==
    /\ cOwner = "finder"
    /\ cOp' = "set"
    /\ cGiven' = newPattern
    /\ IF ThrowsWhenGiven(newPattern)
       THEN /\ cError' = "SyntaxError"
            /\ cRejected' = TRUE
            /\ UNCHANGED cPattern
       ELSE /\ cError' = "none"
            /\ cPattern' = newPattern
            /\ UNCHANGED cRejected
    /\ UNCHANGED <<cOwner, cDocument, cResult>>
    /\ UNCHANGED <<finderVars, templateVars, vegaVars, providerVars, parserVars, rangeVars, decorationVars>>

\* applyInDocument on what was constructed (for a template, by its pass).
\* A pattern that is no regular expression fails here if it got this far.
ApplyConstructed(document) ==
    /\ cOwner # "none"
    /\ cOp' = "apply"
    /\ cDocument' = document
    /\ IF ShortCircuits(document)
       THEN /\ cError' = "none"
            /\ cResult' = <<>>
       ELSE IF SyntaxErrorIn(cPattern)
            THEN /\ cError' = "SyntaxError"
                 /\ cResult' = <<>>
            ELSE /\ cError' = "none"
                 /\ \E matches \in {MatchAll(cPattern, MatcherInput(document))} :
                       cResult' = [i \in DOMAIN matches |-> matches[i].range]
    /\ UNCHANGED <<cOwner, cPattern, cGiven, cRejected>>
    /\ UNCHANGED <<finderVars, templateVars, vegaVars, providerVars, parserVars, rangeVars, decorationVars>>

\* Nothing constructed yet.
ConstructionInit ==
    /\ cOwner = "none"
    /\ cPattern = NoPattern
    /\ cOp = "none"
    /\ cGiven = NoPattern
    /\ cError = "none"
    /\ cRejected = FALSE
    /\ cDocument = NoDocument
    /\ cResult = <<>>

-----------------------------------------------------------------------------
(* The language registry *)

Language(name, id, codeEditorLanguageId, parser) ==
    [absent |-> FALSE, name |-> name, id |-> id,
     codeEditorLanguageId |-> codeEditorLanguageId, parser |-> parser]

\* null
Null == [absent |-> TRUE, name |-> "", id |-> "",
         codeEditorLanguageId |-> "", parser |-> FALSE]

TYPESCRIPT_LANGUAGE == Language("TypeScript", "typescript", "typescript", TRUE)

MATHEMATICS_LANGUAGE == Language("Mathematics", "math", "plaintext", TRUE)

JSON_LANGUAGE == Language("JSON", "json", "json", TRUE)

CSS_LANGUAGE == Language("CSS", "css", "css", TRUE)

PYTHON_LANGUAGE == Language("Python", "python", "python", TRUE)

PLAIN_TEXT_LANGUAGE == Language("Plain text", "plain-text", "plaintext", FALSE)

SUPPORTED_LANGUAGES ==
    <<TYPESCRIPT_LANGUAGE, MATHEMATICS_LANGUAGE, JSON_LANGUAGE, CSS_LANGUAGE,
      PYTHON_LANGUAGE, PLAIN_TEXT_LANGUAGE>>

\* SUPPORTED_LANGUAGES.find(language => language.id === id) ?? null
GetLanguageWithIdOrPlainText(id) ==
    LET found == {i \in DOMAIN SUPPORTED_LANGUAGES : SUPPORTED_LANGUAGES[i].id = id}
    IN IF found = {} THEN PLAIN_TEXT_LANGUAGE ELSE SUPPORTED_LANGUAGES[MinOf(found)]

GetLanguageWithId(id) ==
    LET found == {i \in DOMAIN SUPPORTED_LANGUAGES : SUPPORTED_LANGUAGES[i].id = id}
    IN IF found = {} THEN Null ELSE SUPPORTED_LANGUAGES[MinOf(found)]

\* The language ids a message may carry: those of the registry, and others.
LanguageIds ==
    {SUPPORTED_LANGUAGES[i].id : i \in DOMAIN SUPPORTED_LANGUAGES}
        \cup {"", "JSON", "javascript", "plaintext"}

-----------------------------------------------------------------------------
(* The environment provider of the Visual Studio Code editor *)

ProviderContents == {"a", "b"}

\* The languages of the documents of the editor.
ProviderLanguages == {TYPESCRIPT_LANGUAGE, JSON_LANGUAGE}

\* new Document(language, content)
NewDocument(language, content) == [language |-> language, content |-> content]

ProviderDocuments == {NewDocument(l, c) : l \in ProviderLanguages, c \in ProviderContents}

\* Messages between the editor and the extension.
Message(type, languageId, content, requestId, requests) ==
    [type |-> type, languageId |-> languageId, content |-> content,
     requestId |-> requestId, requests |-> requests]

NoMessage == Message("none", "", "", "", <<>>)

SetDocumentMessage(languageId, content) == Message("set-document", languageId, content, "", <<>>)

SetContentMessage(content) == Message("set-content", "", content, "", <<>>)

RuntimeResponseMessage(requestId) == Message("runtime-response", "", "", requestId, <<>>)

SetRuntimeRequestsMessage(requests) == Message("set-runtime-requests", "", "", "", requests)

EditorReadyMessage == Message("editor-ready", "", "", "", <<>>)

RequestIds == {"r1", "r2", "r3"}

\* The messages the extension may send.
ExtensionMessages ==
    {SetDocumentMessage(id, "b") : id \in LanguageIds}
        \cup {SetContentMessage(c) : c \in ProviderContents}
        \cup {RuntimeResponseMessage(r) : r \in RequestIds \cup {"r9"}}

\* Runtime requests and monocles.
Request(id, name) == [id |-> id, name |-> name]

Monocle(id, runtimeRequests) == [id |-> id, runtimeRequests |-> runtimeRequests]

\* The monocle lists reported to the provider; in the last but one, two
\* monocles have a request of the same id.
MonocleLists ==
    {<< >>,
     <<Monocle("m1", <<Request("r1", "x")>>)>>,
     <<Monocle("m1", <<Request("r1", "x"), Request("r2", "y")>>)>>,
     <<Monocle("m1", <<Request("r1", "x")>>), Monocle("m2", <<Request("r2", "y")>>)>>,
     <<Monocle("m1", <<Request("r1", "x")>>), Monocle("m2", <<Request("r1", "z")>>)>>,
     <<Monocle("m2", <<Request("r3", "y")>>)>>}

\* The handlers initialiseExtensionMessageHandlers adds to the messenger.
RegisteredHandlersButSetContent == {"set-document", "runtime-response"}

RegisteredHandlers == {"set-document", "set-content", "runtime-response"}

\* Map.set: the entry of the key is replaced where it is, or appended.
RECURSIVE MapSet(_, _)
MapSet(entries, entry) ==
    IF entries = << >>
    THEN <<entry>>
    ELSE IF Head(entries).id = entry.id
         THEN <<entry>> \o Tail(entries)
         ELSE <<Head(entries)>> \o MapSet(Tail(entries), entry)

MapHas(entries, id) == \E i \in DOMAIN entries : entries[i].id = id

MapGet(entries, id) == entries[CHOOSE i \in DOMAIN entries : entries[i].id = id]

\* The entries of every request of every monocle, set in order.
RECURSIVE SetRequestsOf(_, _, _)
SetRequestsOf(entries, monocle, k) ==
    IF k > Len(monocle.runtimeRequests)
    THEN entries
    ELSE SetRequestsOf(MapSet(entries,
                              [id |-> monocle.runtimeRequests[k].id,
                               monocle |-> monocle,
                               request |-> monocle.runtimeRequests[k]]),
                       monocle, k + 1)

RECURSIVE SetRequestsOfAll(_, _, _)
SetRequestsOfAll(entries, monocles, m) ==
    IF m > Len(monocles)
    THEN entries
    ELSE SetRequestsOfAll(SetRequestsOf(entries, monocles[m], 1), monocles, m + 1)

\* What this.runtimeRequestIdsToMonoclesAndRequests.clear() leaves.
MapKeptBeforeRemap(entries) == entries

MapClearedBeforeRemap(entries) == << >>

\* remapRuntimeRequestIdsToMonoclesAndRequests
RemapRuntimeRequestIdsToMonoclesAndRequests(entries, monocles) ==
    SetRequestsOfAll(MapClearedBeforeRemap(entries), monocles, 1)

\* this.rawRuntimeRequests
RawRuntimeRequests(entries) == [i \in DOMAIN entries |-> entries[i].request]

\* RuntimeResponse.fromRawResponse
FromRawResponse(requestId, name) == [requestId |-> requestId, name |-> name]

\* processRawRuntimeResponse: the (monocle, response) pairs it queues.
ProcessRawRuntimeResponse(entries, requestId) ==
    IF ~MapHas(entries, requestId)
    THEN << >>
    ELSE <<[monocle |-> MapGet(entries, requestId).monocle.id,
            response |-> FromRawResponse(requestId, MapGet(entries, requestId).request.name)]>>

\* A change of the environment: the document, the monocles, or both.
Changes(hasDocument, document, hasMonocles, monocles) ==
    [hasDocument |-> hasDocument, document |-> document,
     hasMonocles |-> hasMonocles, monocles |-> monocles]

NoProviderDocument == NewDocument(Null, "")

DocumentChange(document) == Changes(TRUE, document, FALSE, << >>)

NoChanges == Changes(FALSE, NoProviderDocument, FALSE, << >>)

EnvironmentChanges ==
    {Changes(TRUE, d, FALSE, << >>) : d \in ProviderDocuments}
        \cup {Changes(FALSE, NoProviderDocument, TRUE, l) : l \in MonocleLists}
        \cup {Changes(TRUE, NewDocument(JSON_LANGUAGE, "b"), TRUE, l) : l \in MonocleLists}

NoChange == [changes |-> NoChanges, before |-> NoProviderDocument]

NoLookup == [called |-> FALSE, id |-> "", result |-> Null]

NoDelivery == [message |-> NoMessage, inReaction |-> FALSE, handled |-> FALSE]

\* onEnvironmentDidChange, its first part: the document message it sends,
\* given the document this.state holds when it runs.
DocumentMessages(changes, held) ==
    IF changes.hasDocument
    THEN IF changes.document.language = held.language
         THEN <<SetDocumentMessage(held.language.id, held.content)>>
         ELSE <<SetContentMessage(held.content)>>
    ELSE << >>

\* Its second part: the map it leaves and the message it sends.
MapAfter(changes, entries) ==
    IF changes.hasMonocles
    THEN RemapRuntimeRequestIdsToMonoclesAndRequests(entries, changes.monocles)
    ELSE entries

RequestsMessages(changes, entries) ==
    IF changes.hasMonocles
    THEN <<SetRuntimeRequestsMessage(RawRuntimeRequests(MapAfter(changes, entries)))>>
    ELSE << >>

\* The environment changes: the state of the provider takes the changes
\* and onEnvironmentDidChange runs, with the state it then finds.
UpdateEnvironment(changes) ==
    LET before == pDocument
        after == IF changes.hasDocument THEN changes.document ELSE before
        held == IF hookSeesNewState THEN after ELSE before
    IN /\ pDocument' = after
       /\ pRequestMap' = MapAfter(changes, pRequestMap)
       /\ pMonocles' = IF changes.hasMonocles THEN changes.monocles ELSE pMonocles
       /\ pEarlierIds' = IF changes.hasMonocles
                         THEN pEarlierIds \cup {pRequestMap[i].id : i \in DOMAIN pRequestMap}
                         ELSE pEarlierIds
       /\ pSent' = DocumentMessages(changes, held) \o RequestsMessages(changes, pRequestMap)
       /\ pChange' = [changes |-> changes, before |-> before]

\* The handler of set-document refuses a language that was not found.
SetDocumentRefusesNothing(language) == FALSE

SetDocumentRefuses(language) == language = Null

\* The extension sends a message. It is handled if the messenger listens
\* and has a handler for its type; the handler runs to its end.
ExtensionMessage(message) ==
    LET handled == pListening /\ message.type \in pHandlers
    IN /\ pDelivery' = [message |-> message, inReaction |-> extReady, handled |-> handled]
       /\ IF handled /\ message.type = "set-document"
          THEN \E language \in {GetLanguageWithId(message.languageId)} :
                  /\ pLookup' = [called |-> TRUE, id |-> message.languageId,
                                  result |-> language]
                  /\ IF SetDocumentRefuses(language)
                     THEN /\ pSent' = << >>
                          /\ pChange' = NoChange
                          /\ UNCHANGED <<pDocument, pRequestMap, pMonocles, pEarlierIds>>
                     ELSE UpdateEnvironment(
                              DocumentChange(NewDocument(language, message.content)))
                  /\ pQueued' = << >>
          ELSE IF handled /\ message.type = "set-content"
          THEN /\ UpdateEnvironment(
                      DocumentChange(NewDocument(pDocument.language, message.content)))
               /\ pQueued' = << >>
               /\ pLookup' = NoLookup
          ELSE IF handled /\ message.type = "runtime-response"
          THEN /\ pQueued' = ProcessRawRuntimeResponse(pRequestMap, message.requestId)
               /\ pSent' = << >>
               /\ pChange' = NoChange
               /\ pLookup' = NoLookup
               /\ UNCHANGED <<pDocument, pRequestMap, pMonocles, pEarlierIds>>
          ELSE /\ pQueued' = << >>
               /\ pSent' = << >>
               /\ pChange' = NoChange
               /\ pLookup' = NoLookup
               /\ UNCHANGED <<pDocument, pRequestMap, pMonocles, pEarlierIds>>
       /\ UNCHANGED <<ppc, pHandlers, pListening, pMountTrace, extReady, hookSeesNewState>>
       /\ UNCHANGED <<finderVars, templateVars, vegaVars, constructionVars, parserVars, rangeVars, decorationVars>>

\* The environment changes on the side of the editor.
EnvironmentChange(changes) ==
    /\ ppc = "mounted"
    /\ UpdateEnvironment(changes)
    /\ pQueued' = << >>
    /\ pDelivery' = NoDelivery
    /\ pLookup' = NoLookup
    /\ UNCHANGED <<ppc, pHandlers, pListening, pMountTrace, extReady, hookSeesNewState>>
    /\ UNCHANGED <<finderVars, templateVars, vegaVars, constructionVars, parserVars, rangeVars, decorationVars>>

\* componentDidMount: what it does, in order.
MountSteps == <<"startListeningForMessages", "sendMessage editor-ready">>

ComponentDidMount ==
    /\ ppc = "constructed"
    /\ ppc' = "mounted"
    /\ pMountTrace' = MountSteps
    /\ pListening' = (\E i \in DOMAIN MountSteps : MountSteps[i] = "startListeningForMessages")
    /\ extReady' = (\E i \in DOMAIN MountSteps : MountSteps[i] = "sendMessage editor-ready")
    /\ pSent' = <<EditorReadyMessage>>
    /\ pQueued' = << >>
    /\ pDelivery' = NoDelivery
    /\ pLookup' = NoLookup
    /\ pChange' = NoChange
    /\ UNCHANGED <<pHandlers, hookSeesNewState, pDocument, pRequestMap, pMonocles,
                   pEarlierIds>>
    /\ UNCHANGED <<finderVars, templateVars, vegaVars, constructionVars, parserVars, rangeVars, decorationVars>>

\* The provider after its constructor, with the document of its initial state.
ProviderInit ==
    /\ ppc = "constructed"
    /\ pHandlers = RegisteredHandlers
    /\ pListening = FALSE
    /\ pMountTrace = << >>
    /\ extReady = FALSE
    /\ pRequestMap = << >>
    /\ pMonocles = << >>
    /\ pEarlierIds = {}
    /\ pDelivery = NoDelivery
    /\ pLookup = NoLookup
    /\ pQueued = << >>
    /\ pSent = << >>
    /\ pChange = NoChange

-----------------------------------------------------------------------------
(* Positions in a text: a text is a sequence of characters, "\n" ends a row *)

Position(row, column) == [row |-> row, column |-> column]

\* Document order of positions.
PositionLeq(a, b) == a.row < b.row \/ (a.row = b.row /\ a.column <= b.column)

\* Position.getOffsetToPositionConverterForText(text)(offset)
OffsetToPosition(text, offset) ==
    LET breaks == {i \in 1..Min2(offset, Len(text)) : text[i] = "\n"}
    IN Position(Cardinality(breaks),
                IF breaks = {} THEN offset ELSE offset - MaxOf(breaks))

-----------------------------------------------------------------------------
(* TypescriptParser: the project of ts-morph and the conversion of the     *)
(* compiler's nodes. A text of the parser is a sequence of the tokens "x"  *)
(* (an identifier), "(" (which begins no statement) and "\n".              *)

TsTokens == {"x", "(", "\n"}

TsTexts == UNION {[1..n -> TsTokens] : n \in 0..MaxTextLen}

SourceFilePath == "code-in-editor.tsx"

\* The option of createSourceFile.
OverwriteNot == FALSE

Overwrite == TRUE

NoProjectFiles == [path \in {} |-> << >>]

\* project.createSourceFile(path, text, { overwrite }): the project with the
\* file, unless the file exists and may not be overwritten.
CreateSourceFile(project, path, text, overwrite) ==
    IF path \in DOMAIN project /\ ~overwrite
    THEN [threw |-> TRUE, project |-> project]
    ELSE [threw |-> FALSE,
          project |-> [q \in DOMAIN project \cup {path} |->
                          IF q = path THEN text ELSE project[q]]]

\* A node of the compiler: its kind, its offsets and its children.
CompilerNode(kind, start, end, children) ==
    [kind |-> kind, start |-> start, end |-> end, children |-> children]

\* The statements the compiler reads from offset i on. It recovers from
\* what is no statement: "(" gives a statement whose expression is missing.
RECURSIVE CompilerStatements(_, _)
CompilerStatements(text, i) ==
    IF i > Len(text)
    THEN << >>
    ELSE IF text[i] = "\n"
    THEN CompilerStatements(text, i + 1)
    ELSE IF text[i] = "x"
    THEN <<CompilerNode("ExpressionStatement", i - 1, i,
                        <<CompilerNode("Identifier", i - 1, i, << >>)>>)>>
             \o CompilerStatements(text, i + 1)
    ELSE <<CompilerNode("ExpressionStatement", i - 1, i,
                        <<CompilerNode("ParenthesizedExpression", i - 1, i,
                                       <<CompilerNode("Identifier", i, i, << >>)>>)>>)>>
             \o CompilerStatements(text, i + 1)

SyntaxListOf(statements) ==
    IF statements = << >>
    THEN CompilerNode("SyntaxList", 0, 0, << >>)
    ELSE CompilerNode("SyntaxList", statements[1].start,
                      statements[Len(statements)].end, statements)

\* Whether the compiler gives up on a text.
CompilerRejectsMalformed(text) == \E i \in DOMAIN text : text[i] = "("

CompilerRejects(text) == FALSE

\* sourceFile.compilerNode.getChildren()
SourceFileChildren(text) ==
    <<SyntaxListOf(CompilerStatements(text, 1)),
      CompilerNode("EndOfFileToken", Len(text), Len(text), << >>)>>

\* TypescriptSyntaxTreeNode.fromTsMorphNode
RECURSIVE FromTsMorphNode(_, _)
FromTsMorphNode(node, text) ==
    [type |-> node.kind,
     range |-> [start |-> OffsetToPosition(text, node.start),
                end |-> OffsetToPosition(text, node.end)],
     childNodes |-> [k \in DOMAIN node.children |-> FromTsMorphNode(node.children[k], text)]]

NoTree == [type |-> "none", range |-> [start |-> Position(0, 0), end |-> Position(0, 0)],
           childNodes |-> << >>]

Thrown == [threw |-> TRUE, tree |-> NoTree]

Returned(tree) == [threw |-> FALSE, tree |-> tree]

\* TypescriptParser.parse: the project it leaves and what it returns. The
\* tree is made from the source file the project holds.
Parse(project, text) ==
    LET created == CreateSourceFile(project, SourceFilePath, text, Overwrite)
    IN IF created.threw \/ CompilerRejects(created.project[SourceFilePath])
       THEN [project |-> created.project, result |-> Thrown]
       ELSE [project |-> created.project,
             result |-> Returned(FromTsMorphNode(
                            SourceFileChildren(created.project[SourceFilePath])[1], text))]

ParseText(text) ==
    /\ \E parsed \in {Parse(tsProject, text)} :
          /\ tsProject' = parsed.project
          /\ tsResult' = parsed.result
    /\ tsParsed' = TRUE
    /\ tsText' = text
    /\ tsOthersSince' = (tsHasRef /\ (tsOthersSince \/ text # tsRefText))
    /\ UNCHANGED <<tsHasRef, tsRefText, tsRefResult>>
    /\ UNCHANGED <<finderVars, templateVars, vegaVars, constructionVars, providerVars, rangeVars, decorationVars>>

\* A caller keeps the result of the last parse, to compare later ones with.
RememberTree ==
    /\ tsParsed
    /\ ~(tsHasRef /\ tsRefText = tsText)
    /\ tsHasRef' = TRUE
    /\ tsRefText' = tsText
    /\ tsRefResult' = tsResult
    /\ tsOthersSince' = FALSE
    /\ UNCHANGED <<tsProject, tsParsed, tsText, tsResult>>
    /\ UNCHANGED <<finderVars, templateVars, vegaVars, constructionVars, providerVars, rangeVars, decorationVars>>

\* The parser after its constructor: a project without source files.
ParserInit ==
    /\ tsProject = NoProjectFiles
    /\ tsParsed = FALSE
    /\ tsText = << >>
    /\ tsResult = Returned(NoTree)
    /\ tsHasRef = FALSE
    /\ tsRefText = << >>
    /\ tsRefResult = Returned(NoTree)
    /\ tsOthersSince = FALSE

-----------------------------------------------------------------------------
(* Range, and the conversion of the selections of the code editor *)

Rows == 0..1

Columns == 0..2

Positions == {Position(r, c) : r \in Rows, c \in Columns}

\* new Range(start, end)
NewRange(start, end) == [start |-> start, end |-> end]

\* Position.relativeTo
PositionRelativeTo(position, origin) ==
    Position(position.row - origin.row, position.column - origin.column)

\* Range.relativeTo
RangeRelativeTo(range, origin) ==
    NewRange(PositionRelativeTo(range.start, origin), PositionRelativeTo(range.end, origin))

\* Range.fromSinglePosition
FromSinglePosition(position) == NewRange(position, position)

\* Range.fromOffsetsInText
FromOffsetsInText(text, startOffset, endOffset) ==
    NewRange(OffsetToPosition(text, startOffset), OffsetToPosition(text, endOffset))

\* Range.fromUnsortedPositions
FromUnsortedPositions(position1, position2) ==
    IF PositionLeq(position1, position2)
    THEN NewRange(position1, position2)
    ELSE NewRange(position2, position1)

\* document.getPositionAtLineAndColumn
GetPositionAtLineAndColumn(line, column) == Position(line, column)

\* A selection of the Monaco editor; its lines and columns start at one.
MonacoSelection(startLineNumber, startColumn, endLineNumber, endColumn) ==
    [startLineNumber |-> startLineNumber, startColumn |-> startColumn,
     endLineNumber |-> endLineNumber, endColumn |-> endColumn]

MonacoSelections ==
    {MonacoSelection(p.row + 1, p.column + 1, q.row + 1, q.column + 1) :
        p \in Positions, q \in Positions}

NoSelection == MonacoSelection(0, 0, 0, 0)

\* A line number or column of the editor as a row or column of a Position.
AsGivenByEditor(n) == n

FromOneBased(n) == n - 1

\* convertMonacoSelection
ConvertMonacoSelection(selection) ==
    FromUnsortedPositions(
        GetPositionAtLineAndColumn(FromOneBased(selection.startLineNumber),
                                   FromOneBased(selection.startColumn)),
        GetPositionAtLineAndColumn(FromOneBased(selection.endLineNumber),
                                   FromOneBased(selection.endColumn)))

\* Texts of up to MaxTextLen characters, with line breaks.
RangeTexts == UNION {[1..n -> {"a", "\n"}] : n \in 0..MaxTextLen}

NoRange == NewRange(Position(0, 0), Position(0, 0))

Produced(op, range, source, text, selection) ==
    /\ rOp' = op
    /\ rRange' = range
    /\ rSource' = source
    /\ rText' = text
    /\ rSelection' = selection
    /\ UNCHANGED <<finderVars, templateVars, vegaVars, constructionVars, providerVars,
                   parserVars, decorationVars>>

RangeConstructor(start, end) ==
    /\ {start, end} \subseteq Positions
    /\ Produced("constructor", NewRange(start, end), NoRange, << >>, NoSelection)

RangeFromSinglePosition(position) ==
    /\ position \in Positions
    /\ Produced("fromSinglePosition", FromSinglePosition(position), NoRange, << >>,
                NoSelection)

\* The offsets are offsets of the text.
RangeFromOffsetsInText(text, startOffset, endOffset) ==
    /\ {startOffset, endOffset} \subseteq 0..Len(text)
    /\ Produced("fromOffsetsInText", FromOffsetsInText(text, startOffset, endOffset),
                NoRange, text, NoSelection)

\* relativeTo, on a Range that one of the others produced.
RangeRelativeToOrigin(origin) ==
    /\ rOp \in {"constructor", "fromSinglePosition", "fromOffsetsInText"}
    /\ Produced("relativeTo", RangeRelativeTo(rRange, origin), rRange, << >>, NoSelection)

SelectionConverted(selection) ==
    /\ selection \in MonacoSelections
    /\ Produced("convertMonacoSelection", ConvertMonacoSelection(selection),
                NoRange, << >>, selection)

RangeInit ==
    /\ rOp = "none"
    /\ rRange = NoRange
    /\ rSource = NoRange
    /\ rText = << >>
    /\ rSelection = NoSelection

-----------------------------------------------------------------------------
(* The bounding box of a decoration of the code editor *)

\* The number of elements a decoration id may have, and the greatest
\* coordinate of an element.
MaxElements == 2

MaxCoordinate == 2

\* element.getBoundingClientRect()
BoundingClientRect(left, top, width, height) ==
    [left |-> left, top |-> top, right |-> left + width, bottom |-> top + height]

\* The bounding boxes the elements of a decoration may have: pieces of
\* lines of text, one row high.
ElementBoundingBoxes ==
    {BoundingClientRect(left, top, width, 1) :
        left \in 0..MaxCoordinate, top \in 0..MaxCoordinate, width \in 0..1}

RECURSIVE ElementLists(_)
ElementLists(n) ==
    IF n = 0
    THEN {<<>>}
    ELSE LET shorter == ElementLists(n - 1)
         IN shorter \cup {Append(l, box) : l \in {x \in shorter : Len(x) = n - 1},
                                           box \in ElementBoundingBoxes}

\* new DOMRect(x, y, width, height)
DOMRect(x, y, width, height) == [x |-> x, y |-> y, width |-> width, height |-> height]

NoRect == DOMRect(0, 0, 0, 0)

\* boxes.sort((box1, box2) => box2[field] - box1[field]): the boxes in
\* descending order of the field, boxes of equal field in their order.
RECURSIVE SortDescending(_, _)
SortDescending(boxes, field) ==
    IF boxes = <<>>
    THEN <<>>
    ELSE LET last == boxes[Len(boxes)]
             sorted == SortDescending(SubSeq(boxes, 1, Len(boxes) - 1), field)
             before == SelectSeq(sorted, LAMBDA box : box[field] >= last[field])
             after == SelectSeq(sorted, LAMBDA box : box[field] < last[field])
         IN before \o <<last>> \o after

\* The rectangle computed from the boxes of the elements: each sort is done
\* in place, on the array the sort before it left.
DecorationBoundingBox(elementBoundingBoxes) ==
    LET nbElements == Len(elementBoundingBoxes)
        markersSortedByTop == SortDescending(elementBoundingBoxes, "top")
        minMarkerTop == markersSortedByTop[1].top
        maxMarkerTop == markersSortedByTop[nbElements].top
        markersSortedByLeft == SortDescending(markersSortedByTop, "left")
        minMarkerLeft == markersSortedByLeft[1].left
        markersSortedByRight == SortDescending(markersSortedByLeft, "right")
        maxMarkerRight == markersSortedByRight[1].right
    IN DOMRect(minMarkerLeft, minMarkerTop,
               maxMarkerRight - minMarkerLeft, maxMarkerTop - minMarkerTop)

\* getDecorationBoundingBoxWithId(id), the elements of the id being those of
\* dElements: it throws when there is none.
GetDecorationBoundingBoxWithId ==
    /\ dpc = "idle"
    /\ IF Len(dElements) = 0
       THEN /\ dpc' = "thrown"
            /\ dBox' = NoRect
       ELSE /\ dpc' = "returned"
            /\ dBox' = DecorationBoundingBox(dElements)
    /\ UNCHANGED dElements
    /\ UNCHANGED <<finderVars, templateVars, vegaVars, constructionVars, providerVars,
                   parserVars, rangeVars>>

\* No call yet.
DecorationInit ==
    /\ dpc = "idle"
    /\ dBox = NoRect

-----------------------------------------------------------------------------
(* Specifications *)

vars == <<finderVars, templateVars, vegaVars, laterVars>>

\* The later components, not at work.
ProviderIdle ==
    /\ hookSeesNewState = TRUE
    /\ pDocument = NewDocument(PLAIN_TEXT_LANGUAGE, "")
    /\ ProviderInit

\* A decoration id without elements.
DecorationIdle ==
    /\ dElements = <<>>
    /\ DecorationInit

LaterIdle ==
    /\ DecorationIdle
    /\ ConstructionInit
    /\ ProviderIdle
    /\ ParserInit
    /\ RangeInit

\* A document that holds no JSON: the Vega marks provider is not at work.
VegaIdle ==
    /\ vegaText = <<>>
    /\ vegaTree = ParseValue(Obj(<<>>), 0)
    /\ VegaInit

\* The regex pattern finder alone: a finder constructed with any pattern.
InitFinder ==
    /\ finderPattern \in Patterns
    /\ FinderInit
    /\ tPattern = PatternXPlusB
    /\ slotSpecification = [k \in {"x"} |-> "TextualValuator"]
    /\ TemplateInit
    /\ VegaIdle
    /\ LaterIdle

NextFinder ==
    \/ \E document \in Documents : ApplyStart(document)
    \/ ScanIteration
    \/ Remember
    \/ \E newPattern \in Patterns : SetPattern(newPattern)

SpecFinder == InitFinder /\ [][NextFinder]_vars

\* The regex pattern template alone: a template constructed with any pattern
\* and slot specification.
InitTemplate ==
    /\ finderPattern = PatternA
    /\ FinderInit
    /\ tPattern \in TemplatePatterns
    /\ slotSpecification \in SlotSpecifications
    /\ TemplateInit
    /\ VegaIdle
    /\ LaterIdle

NextTemplate ==
    \/ \E document \in Documents : ProvideFragmentsForDocument(document)
    \/ ObtainMapping

SpecTemplate == InitTemplate /\ [][NextTemplate]_vars

\* The Vega marks provider alone, on any JSON document of the model.
InitVega ==
    /\ finderPattern = PatternA
    /\ FinderInit
    /\ tPattern = PatternXPlusB
    /\ slotSpecification = [k \in {"x"} |-> "TextualValuator"]
    /\ TemplateInit
    /\ \E json \in JsonDocuments :
          /\ vegaText = RenderValue(json)
          /\ vegaTree = ParseValue(json, 0)
    /\ VegaInit
    /\ LaterIdle

NextVega ==
    \/ ProvideVegaFragments
    \/ ProvideFragmentsContinuing
    \/ \E target \in DOMAIN vegaFragments, styleChange \in StyleChanges :
          OutputMapping(target, styleChange)
    \/ \E target \in DOMAIN vegaFragments : InputMapping(target)
    \/ InputMappingOfEditedDocument

SpecVega == InitVega /\ [][NextVega]_vars

-----------------------------------------------------------------------------
(* Properties of the regex pattern template (checked under SpecTemplate) *)

\* The template's current Fragment -> Slots mapping.
Mapping == mapHeap[mapRef]

GroupNames(f) == {f.match.groups[i].name : i \in DOMAIN f.match.groups}

\* C1: after any sequence of recompute passes, every slot key of every
\* fragment of the mapping is declared in the slot specification and names
\* a group of the fragment's match, and a declared key that names no group
\* of the match is absent from the fragment's slot map.
C1_SlotKeysAreDeclaredGroups ==
    \A f \in DOMAIN Mapping :
        /\ \A k \in DOMAIN Mapping[f] :
              k \in DOMAIN slotSpecification /\ k \in GroupNames(f)
        /\ \A k \in DOMAIN slotSpecification :
              k \notin GroupNames(f) => k \notin DOMAIN Mapping[f]

\* A pass has produced a fragment with a slot, and a fragment in which a
\* declared key has no group and no slot.
C1_Witness ==
    /\ passes >= 1
    /\ \E f \in DOMAIN Mapping : DOMAIN Mapping[f] # {}
    /\ \E f \in DOMAIN Mapping : \E k \in DOMAIN slotSpecification :
          k \notin GroupNames(f) /\ k \notin DOMAIN Mapping[f]
    /\ \E f \in DOMAIN Mapping : GroupNames(f) \ DOMAIN slotSpecification # {}

\* C2: for every fragment returned by the pass over document D and every
\* declared slot key that names a group of its match, the slot map holds
\* under that key the slot made of the group's value, the group's range, D,
\* the key and the valuator provider declared for the key.
C2_SlotBoundToGroup ==
    \A n \in DOMAIN lastReturned :
        LET f == lastReturned[n]
        IN \A k \in DOMAIN slotSpecification :
              \A i \in DOMAIN f.match.groups :
                  f.match.groups[i].name = k =>
                      /\ f \in DOMAIN Mapping
                      /\ k \in DOMAIN Mapping[f]
                      /\ Mapping[f][k] =
                            [text |-> f.match.groups[i].value,
                             range |-> f.match.groups[i].range,
                             document |-> lastDocument,
                             key |-> k,
                             valuatorProvider |-> slotSpecification[k]]

\* A returned fragment has a slot whose text is a proper part of the match.
C2_Witness ==
    \E n \in DOMAIN lastReturned :
        \E k \in DOMAIN Mapping[lastReturned[n]] :
            /\ Mapping[lastReturned[n]][k].text # lastReturned[n].text
            /\ Mapping[lastReturned[n]][k].valuatorProvider = "NumericValuator"

\* C3: after any sequence of passes, the fragments that are keys of the
\* mapping are exactly the fragments returned by the most recent pass, every
\* slot references the document of that pass, and nothing of an earlier pass
\* remains.
C3_MappingIsOfTheLastPass ==
    /\ DOMAIN Mapping = SeqRange(lastReturned)
    /\ \A f \in DOMAIN Mapping :
          /\ f.oid[1] = passes
          /\ \A k \in DOMAIN Mapping[f] : Mapping[f][k].document = lastDocument

\* A pass that returned fragments has been superseded by a later pass that
\* returned fragments too.
C3_Witness ==
    /\ passes >= 2
    /\ superseded
    /\ lastReturned # <<>>
    /\ \E f \in DOMAIN Mapping : DOMAIN Mapping[f] # {}

\* C4 as stated: every pass swaps in a freshly allocated mapping and leaves
\* every mapping object that existed before the pass as it was.
C4_FreshMappingEveryPass ==
    [][passes' # passes =>
          /\ mapRef' # mapRef
          /\ \A r \in DOMAIN mapHeap : mapHeap'[r] = mapHeap[r]]_vars

\* C4, amended: every pass clears and refills the template's one mapping
\* object in place, allocating none; a consumer holding the mapping finds in
\* it, after the pass, the complete mapping of that pass (an entry for every
\* returned fragment, holding a slot for every declared key that names a
\* group), the entries of the previous pass being gone.
C4_MappingRebuiltInPlace ==
    [][passes' # passes =>
          /\ mapRef' = mapRef
          /\ DOMAIN mapHeap' = DOMAIN mapHeap
          /\ heldRef # 0 =>
                /\ DOMAIN mapHeap'[heldRef] = SeqRange(lastReturned')
                /\ \A f \in DOMAIN mapHeap'[heldRef] :
                      DOMAIN mapHeap'[heldRef][f] =
                          DOMAIN slotSpecification \cap GroupNames(f)]_vars

\* A consumer holds the mapping it obtained when it had entries, and a later
\* pass has returned other fragments.
C4_Witness ==
    /\ heldRef = mapRef
    /\ heldStale
    /\ heldEntries > 0
    /\ lastReturned # <<>>

-----------------------------------------------------------------------------
(* Properties of the Vega marks provider (checked under SpecVega) *)

\* The characters of the document in a range.
TextIn(range) == SubSeq(vegaText, range.start + 1, range.end)

\* The mark object the output mapping was given.
TargetMark == vegaFragments[vegaTarget].node.value

FillProperties == SelectSeq(TargetMark.properties, LAMBDA p : p.key.value = "fill")

\* A style change that carries a background colour and nothing else.
BackgroundColourOnly(styleChange) ==
    /\ styleChange.background.present
    /\ styleChange.background.color.state = "value"
    /\ ~styleChange.border.present
    /\ ~styleChange.font.present

\* C5: for a mark object that has a fill property, an output carrying only
\* a background colour queues exactly one edit, a replace of the range of
\* that property's value by the quoted colour, and the edited document is
\* the document with that range replaced, every other character unchanged.
C5_FillReplacedAlone ==
    (vpc = "edited" /\ BackgroundColourOnly(vegaOutput) /\ FillProperties # <<>>) =>
        LET range == FillProperties[1].value.range
            text == <<"\"", vegaOutput.background.color.css, "\"">>
        IN /\ vegaEdits = <<[kind |-> "replace", range |-> range, text |-> text]>>
           /\ vegaEditedText = SubSeq(vegaText, 1, range.start) \o text
                                  \o SubSeq(vegaText, range.end + 1, Len(vegaText))

\* The output mapping changed the fill of a mark object whose fill comes
\* after a color property.
C5_Witness ==
    /\ vpc = "edited"
    /\ BackgroundColourOnly(vegaOutput)
    /\ FillProperties # <<>>
    /\ TargetMark.properties[1].key.value = "color"
    /\ vegaEditedText # vegaText

\* {"mark": {"fill": "red"}}
ScenarioAText ==
    <<"{", "\"", "mark", "\"", ":", " ",
      "{", "\"", "fill", "\"", ":", " ", "\"", "red", "\"", "}", "}">>

\* C6 as stated: on the text of scenario A the pattern yields one fragment,
\* whose node is the object {"fill": "red"}.
C6_NodeIsTheObject ==
    (vegaMatched /\ vegaText = ScenarioAText) =>
        /\ Len(vegaFragments) = 1
        /\ vegaFragments[1].node.type = "Object"
        /\ TextIn(vegaFragments[1].node.range) =
              <<"{", "\"", "fill", "\"", ":", " ", "\"", "red", "\"", "}">>

\* C6, amended: on the text of scenario A the pattern yields one fragment,
\* whose node is the property "mark": {"fill": "red"}; the object
\* {"fill": "red"} is the value of that node.
C6_NodeIsTheMarkProperty ==
    (vegaMatched /\ vegaText = ScenarioAText) =>
        /\ Len(vegaFragments) = 1
        /\ vegaFragments[1].node.type = "Property"
        /\ TextIn(vegaFragments[1].node.range) =
              <<"\"", "mark", "\"", ":", " ",
                "{", "\"", "fill", "\"", ":", " ", "\"", "red", "\"", "}">>
        /\ vegaFragments[1].node.value.type = "Object"
        /\ TextIn(vegaFragments[1].node.value.range) =
              <<"{", "\"", "fill", "\"", ":", " ", "\"", "red", "\"", "}">>

\* The fragment provider has been applied to the document of scenario A.
C6_Witness == vegaMatched /\ vegaText = ScenarioAText

\* All the nodes of a tree.
RECURSIVE NodesOf(_)
NodesOf(node) ==
    {node} \cup UNION {NodesOf(ChildNodes(node)[i]) : i \in DOMAIN ChildNodes(node)}

\* The nodes of the document that satisfy the predicate, and those of them
\* that lie inside no other.
MatchingNodes == {n \in NodesOf(vegaTree) : VegaMarksPredicate(n)}

Inside(a, b) ==
    a # b /\ b.range.start <= a.range.start /\ a.range.end <= b.range.end

OuterMatchingNodes == {n \in MatchingNodes : \A m \in MatchingNodes : ~Inside(n, m)}

\* The fragments are those of the nodes, one each, in source order.
FragmentsOf(fragments, nodes) ==
    /\ {fragments[i].node : i \in DOMAIN fragments} = nodes
    /\ Len(fragments) = Cardinality(nodes)
    /\ \A i, j \in DOMAIN fragments :
          i < j => fragments[i].node.range.start < fragments[j].node.range.start

\* C7: with the policy of the Vega marks pattern the finder yields the
\* matching nodes that lie inside no other matching node, so one fragment,
\* the outer node, for a match holding a matching descendant; continuing into
\* the descendants it yields every matching node, the outer one first.
C7_SkipDescendantsPolicy ==
    /\ vegaMatched => FragmentsOf(vegaFragments, OuterMatchingNodes)
    /\ vegaAllMatched => FragmentsOf(vegaAllFragments, MatchingNodes)
    /\ (vegaMatched /\ vegaAllMatched /\ MatchingNodes # OuterMatchingNodes) =>
          /\ Len(vegaFragments) = 1
          /\ Len(vegaAllFragments) = 2
          /\ vegaAllFragments[1] = vegaFragments[1]
          /\ Inside(vegaAllFragments[2].node, vegaAllFragments[1].node)

\* Both finders were applied to a document whose mark object holds an
\* object-valued mark property.
C7_Witness ==
    /\ vegaMatched
    /\ vegaAllMatched
    /\ Len(vegaFragments) = 1
    /\ Len(vegaAllFragments) = 2

-----------------------------------------------------------------------------
(* Properties of the regex pattern finder (checked under SpecFinder) *)

\* The pattern matches the empty string.
CanMatchEmpty(pattern) == MatchFrom(pattern.atoms, 1, <<>>, 0).ok

StartsOf(matches) == {matches[i].range.start : i \in DOMAIN matches}

\* C8: applyInDocument on an empty document returns an empty list and never
\* calls the matcher, whatever the pattern.
C8_EmptyDocumentShortCircuit ==
    Len(fDocument.content) = 0 =>
        /\ fpc # "scanning"
        /\ ~matcherInvoked
        /\ fResult = <<>>

\* A call on an empty document has returned, the finder holding a pattern
\* that matches the empty string.
C8_Witness ==
    /\ fpc = "returned"
    /\ fDocument \in Documents
    /\ Len(fDocument.content) = 0
    /\ finderPattern = PatternAStar

\* C9: for a pattern that can match the empty string and a non-empty
\* document, the scan makes at most one step per offset of the text (so it
\* terminates), its position is past the start of every match found so far,
\* and no two matches, collected or returned, start at the same offset.
C9_ZeroWidthScanTerminates ==
    (CanMatchEmpty(finderPattern) /\ Len(fDocument.content) > 0) =>
        /\ iterations <= Len(fDocument.content) + 1
        /\ Len(fMatches) = iterations
        /\ Cardinality(StartsOf(fMatches)) = Len(fMatches)
        /\ fpc = "scanning" => \A i \in DOMAIN fMatches : fMatches[i].range.start < lastIndex
        /\ fpc = "returned" => /\ Len(fResult) = Len(fMatches)
                               /\ Cardinality(StartsOf(fResult)) = Len(fResult)

\* A scan of a non-empty document has returned several matches, one of them
\* of width zero.
C9_Witness ==
    /\ fpc = "returned"
    /\ CanMatchEmpty(finderPattern)
    /\ Len(fDocument.content) > 0
    /\ Len(fResult) >= 2
    /\ \E i \in DOMAIN fResult : fResult[i].range.start = fResult[i].range.end
    /\ \E i \in DOMAIN fResult : fResult[i].range.start < fResult[i].range.end

-----------------------------------------------------------------------------
(* Properties of the input mapping of the Vega marks provider (checked *)
(* under SpecVega)                                                      *)

\* The mark object the input mapping was given in the document as it was.
ReadMark == MarkOf(vegaFragments[vegaTarget])

\* An array of exactly two numbers.
ArrayOfTwoNumbers(value) ==
    /\ value.type = "Array"
    /\ Len(value.values) = 2
    /\ \A i \in DOMAIN value.values : value.values[i].type = "Number"

\* C21 as stated: when the mark has a strokeDash property, the input mapping
\* sets a border type exactly when the value of strokeDash is an array of
\* two numbers; for any other value, a two-element array with an element
\* that is no number among them, it sets no border type.
C21_TypeOnlyFromTwoNumbers ==
    (vpc = "read" /\ HasProperty(ReadMark, <<"strokeDash">>)) =>
        (vegaInput.border.type # Undefined
            <=> ArrayOfTwoNumbers(FindProperty(ReadMark, <<"strokeDash">>).value))

\* The border type a border type reads back as: a pair of dash lengths 1, 1
\* is what dotted is written as, and a pair 2, 2 what dashed is written as.
ReadsBackAs(type) ==
    IF type.kind = "lengths" /\ type.lengths = <<1, 1>> THEN BorderTypeOf("dotted", <<>>)
    ELSE IF type.kind = "lengths" /\ type.lengths = <<2, 2>> THEN BorderTypeOf("dashed", <<>>)
    ELSE type

\* The mark object of the edited document that the input mapping was given.
EditedMark ==
    MarkOf(ApplyTreePattern(ParseJson(vegaEditedText), VegaMarksPolicy)[vegaTarget])

\* The output mapping was given a border type, and the input mapping has
\* read the mark of the edited document.
BorderTypeWentRound ==
    /\ vpc = "read again"
    /\ vegaOutput.border.present
    /\ IsEnabledAndDefined(vegaOutput.border.type)

-----------------------------------------------------------------------------
(* Specifications of the later components *)

\* The first three components, not at work.
EngineIdle ==
    /\ finderPattern = PatternA
    /\ FinderInit
    /\ tPattern = PatternXPlusB
    /\ slotSpecification = [k \in {"x"} |-> "TextualValuator"]
    /\ TemplateInit
    /\ VegaIdle

\* Construction with any pattern string, then use.
InitConstruction ==
    /\ EngineIdle
    /\ DecorationIdle
    /\ ConstructionInit
    /\ ProviderIdle
    /\ ParserInit
    /\ RangeInit

NextConstruction ==
    \/ \E owner \in {"finder", "template"}, pattern \in PatternStrings :
          Construct(owner, pattern)
    \/ \E newPattern \in PatternStrings : AssignPattern(newPattern)
    \/ \E document \in Documents : ApplyConstructed(document)

SpecConstruction == InitConstruction /\ [][NextConstruction]_vars

-----------------------------------------------------------------------------
(* Properties of construction (checked under SpecConstruction) *)

\* C11: a pattern string that is no regular expression makes the
\* constructor or the pattern setter it is given to throw, and is never
\* installed: applyInDocument never runs with such a pattern, and so never
\* is the first to report it.
C11_InvalidPatternFailsWhenGiven ==
    /\ (cOp \in {"construct", "set"} /\ SyntaxErrorIn(cGiven)) => cError = "SyntaxError"
    /\ cOwner # "none" => ~SyntaxErrorIn(cPattern)
    /\ cOp = "apply" => cError = "none"

\* A finder whose setter rejected a pattern was applied to a document that
\* is not empty.
C11_Witness ==
    /\ cOp = "apply"
    /\ cOwner = "finder"
    /\ cRejected
    /\ SyntaxErrorIn(cGiven)
    /\ ~IsEmpty(cDocument)

-----------------------------------------------------------------------------
(* The provider and the extension *)

InitProvider ==
    /\ EngineIdle
    /\ DecorationIdle
    /\ ConstructionInit
    /\ hookSeesNewState \in BOOLEAN
    /\ pDocument \in {NewDocument(PLAIN_TEXT_LANGUAGE, ""), NewDocument(JSON_LANGUAGE, "a")}
    /\ ProviderInit
    /\ ParserInit
    /\ RangeInit

NextProvider ==
    \/ ComponentDidMount
    \/ \E message \in ExtensionMessages : ExtensionMessage(message)
    \/ \E changes \in EnvironmentChanges : EnvironmentChange(changes)

SpecProvider == InitProvider /\ [][NextProvider]_vars

-----------------------------------------------------------------------------
(* Properties of the provider (checked under SpecProvider) *)

SupportedIds == {SUPPORTED_LANGUAGES[i].id : i \in DOMAIN SUPPORTED_LANGUAGES}

HasRequest(monocle, id) ==
    \E k \in DOMAIN monocle.runtimeRequests : monocle.runtimeRequests[k].id = id

CurrentRequestIds ==
    {id \in RequestIds \cup {"r9"} : \E m \in DOMAIN pMonocles : HasRequest(pMonocles[m], id)}

LastMonocleWith(id) ==
    pMonocles[MaxOf({m \in DOMAIN pMonocles : HasRequest(pMonocles[m], id)})].id

HandledMessage(type) == pDelivery.handled /\ pDelivery.message.type = type

\* C17: a runtime response the provider receives is queued if and only if
\* its requestId is the id of a request of a monocle of the monocle list
\* most recently reported; it is then queued once, to the monocle that list
\* registers for the id, and is queued to no monocle otherwise.
C17_ResponseGoesToCurrentMonocle ==
    HandledMessage("runtime-response") =>
        IF pDelivery.message.requestId \in CurrentRequestIds
        THEN /\ Len(pQueued) = 1
             /\ pQueued[1].monocle = LastMonocleWith(pDelivery.message.requestId)
             /\ pQueued[1].response.requestId = pDelivery.message.requestId
        ELSE pQueued = << >>

\* A response to a request of an earlier monocle list only was received and
\* dropped.
C17_Witness ==
    /\ HandledMessage("runtime-response")
    /\ pDelivery.message.requestId \in pEarlierIds \ CurrentRequestIds
    /\ pMonocles # << >>
    /\ pQueued = << >>

\* C18: the handler of a set-document message whose languageId is the id of
\* no registered language leaves the document of the environment as it is
\* and changes nothing of the environment; with a registered id it sets a
\* document of that language and of the content of the message.
C18_UnknownLanguageLeavesDocument ==
    [][(pDelivery'.handled /\ pDelivery'.message.type = "set-document") =>
          IF pDelivery'.message.languageId \in SupportedIds
          THEN /\ pDocument'.language \in SeqRange(SUPPORTED_LANGUAGES)
               /\ pDocument'.language.id = pDelivery'.message.languageId
               /\ pDocument'.content = pDelivery'.message.content
          ELSE /\ pDocument' = pDocument
               /\ pChange' = NoChange
               /\ pSent' = << >>]_vars

\* A set-document message of an unregistered language was handled while
\* the environment held a document of another content.
C18_Witness ==
    /\ HandledMessage("set-document")
    /\ pDelivery.message.languageId = "javascript"
    /\ pDocument.content # pDelivery.message.content
    /\ pDocument.language = TYPESCRIPT_LANGUAGE

\* C19: the provider has its three message handlers from its construction
\* on; componentDidMount starts listening before it sends editor-ready; so a
\* message the extension sends after it was sent editor-ready finds the
\* provider listening, with a handler for it.
C19_ListeningBeforeEditorReady ==
    /\ pHandlers = {"set-document", "set-content", "runtime-response"}
    /\ extReady => pListening
    /\ ppc = "mounted" =>
          \E i, j \in DOMAIN pMountTrace :
             /\ i < j
             /\ pMountTrace[i] = "startListeningForMessages"
             /\ pMountTrace[j] = "sendMessage editor-ready"
    /\ pDelivery.inReaction => pDelivery.handled

\* A set-content message sent after editor-ready was handled.
C19_Witness ==
    /\ pDelivery.inReaction
    /\ HandledMessage("set-content")
    /\ pDocument.content = pDelivery.message.content

DocumentMessagesSent ==
    SelectSeq(pSent, LAMBDA m : m.type \in {"set-document", "set-content"})

-----------------------------------------------------------------------------
(* The TypeScript parser *)

InitParser ==
    /\ EngineIdle
    /\ DecorationIdle
    /\ ConstructionInit
    /\ ProviderIdle
    /\ ParserInit
    /\ RangeInit

NextParser ==
    \/ \E text \in TsTexts : ParseText(text)
    \/ RememberTree

SpecParser == InitParser /\ [][NextParser]_vars

-----------------------------------------------------------------------------
(* Properties of the TypeScript parser (checked under SpecParser) *)

\* The nodes of a tree.
RECURSIVE TreeNodes(_)
TreeNodes(node) ==
    {node} \cup UNION {TreeNodes(node.childNodes[k]) : k \in DOMAIN node.childNodes}

HasStatement(text) == \E i \in DOMAIN text : text[i] # "\n"

-----------------------------------------------------------------------------
(* Ranges *)

InitRange ==
    /\ EngineIdle
    /\ DecorationIdle
    /\ ConstructionInit
    /\ ProviderIdle
    /\ ParserInit
    /\ RangeInit

NextRange ==
    \/ \E start \in Positions, end \in Positions : RangeConstructor(start, end)
    \/ \E position \in Positions : RangeFromSinglePosition(position)
    \/ \E text \in RangeTexts :
          \E startOffset \in 0..Len(text), endOffset \in 0..Len(text) :
             RangeFromOffsetsInText(text, startOffset, endOffset)
    \/ \E origin \in Positions : RangeRelativeToOrigin(origin)
    \/ \E selection \in MonacoSelections : SelectionConverted(selection)

SpecRange == InitRange /\ [][NextRange]_vars

-----------------------------------------------------------------------------
(* Properties of ranges (checked under SpecRange) *)

-----------------------------------------------------------------------------
(* Decorations *)

InitDecoration ==
    /\ EngineIdle
    /\ ConstructionInit
    /\ ProviderIdle
    /\ ParserInit
    /\ RangeInit
    /\ dElements \in ElementLists(MaxElements)
    /\ DecorationInit

NextDecoration ==
    \/ GetDecorationBoundingBoxWithId

SpecDecoration == InitDecoration /\ [][NextDecoration]_vars

-----------------------------------------------------------------------------
(* Properties of the decoration bounding box (checked under SpecDecoration) *)

Lefts == {dElements[i].left : i \in DOMAIN dElements}

Tops == {dElements[i].top : i \in DOMAIN dElements}

Rights == {dElements[i].right : i \in DOMAIN dElements}

\* C23 as stated: for a decoration id with at least one element, the
\* rectangle returned has x = the minimum left, y = the minimum top, width =
\* the maximum right minus the minimum left, and height = the maximum top
\* minus the minimum top of the boxes of the elements, so that neither its
\* width nor its height is negative.
C23_BoxSpansAllElements ==
    dpc = "returned" =>
        /\ dBox.x = MinOf(Lefts)
        /\ dBox.y = MinOf(Tops)
        /\ dBox.width = MaxOf(Rights) - MinOf(Lefts)
        /\ dBox.height = MaxOf(Tops) - MinOf(Tops)
        /\ dBox.width >= 0
        /\ dBox.height >= 0

====
